---- MODULE Spec2Model ----
(***************************************************************************)
(* Model of the track-search tool: the tracklist line parser               *)
(* (music_store_search.py Track.parse_tracklist_line, parse_tracklist),    *)
(* the four platform adapters and their coordinator (MusicStoreSearcher),  *)
(* the result table (save_results_to_csv) and the statistics               *)
(* (generate_stats).                                                       *)
(*                                                                         *)
(* A Python string is a sequence of one-character strings.                 *)
(***************************************************************************)
EXTENDS Integers, Sequences, FiniteSets, TLC

(***************************************************************************)
(* Strings                                                                 *)
(***************************************************************************)

\* A character of the Latin-1 range is written as itself, a character above
\* it by its code point ("U+2028"): the alphabet of the model is the Latin-1
\* range and the characters named in this module.

\* The characters str.strip() and the pattern \s treat as whitespace.
Whitespace ==
    {"\t", "\n", "", "\f", "\r", "", "", "", "", " ", "", " ",
     "U+1680", "U+2000", "U+2001", "U+2002", "U+2003", "U+2004", "U+2005",
     "U+2006", "U+2007", "U+2008", "U+2009", "U+200A", "U+2028", "U+2029",
     "U+202F", "U+205F", "U+3000"}

IsSpace(c) == c \in Whitespace

\* The lower-case form of the letters of the Latin-1 range that have one.
CaseTable ==
    LET UpperChars ==
            <<"A", "B", "C", "D", "E", "F", "G", "H", "I", "J", "K", "L", "M", "N",
            "O", "P", "Q", "R", "S", "T", "U", "V", "W", "X", "Y", "Z", "À", "Á",
            "Â", "Ã", "Ä", "Å", "Æ", "Ç", "È", "É", "Ê", "Ë", "Ì", "Í", "Î", "Ï",
            "Ð", "Ñ", "Ò", "Ó", "Ô", "Õ", "Ö", "Ø", "Ù", "Ú", "Û", "Ü", "Ý", "Þ">>
        LowerChars ==
            <<"a", "b", "c", "d", "e", "f", "g", "h", "i", "j", "k", "l", "m", "n",
            "o", "p", "q", "r", "s", "t", "u", "v", "w", "x", "y", "z", "à", "á",
            "â", "ã", "ä", "å", "æ", "ç", "è", "é", "ê", "ë", "ì", "í", "î", "ï",
            "ð", "ñ", "ò", "ó", "ô", "õ", "ö", "ø", "ù", "ú", "û", "ü", "ý", "þ">>
    IN  [c \in {UpperChars[k] : k \in 1..Len(UpperChars)} |->
            LowerChars[CHOOSE k \in 1..Len(UpperChars) : UpperChars[k] = c]]

\* The form re.IGNORECASE compares: two characters match each other when
\* their forms are equal.  Above the Latin-1 range, the characters that match
\* a letter of the range are the dotted capital I and the dotless i (i), the
\* long s (s), the capital y with diaeresis, the Greek mu, capital and small
\* (the micro sign), the capital sharp s, the Kelvin sign (k) and the
\* Angstrom sign.
Lower(c) ==
    IF c \in DOMAIN CaseTable THEN CaseTable[c]
    ELSE CASE c \in {"U+0130", "U+0131"} -> "i"
           [] c = "U+017F" -> "s"
           [] c = "U+0178" -> "ÿ"
           [] c \in {"U+039C", "U+03BC"} -> "µ"
           [] c = "U+1E9E" -> "ß"
           [] c = "U+212A" -> "k"
           [] c = "U+212B" -> "å"
           [] OTHER -> c

\* c.lower() is the ASCII letter x (x a small letter): c is x, its capital,
\* or, for k, the Kelvin sign.  No other character has a lower-case form
\* that holds an ASCII letter, but the dotted capital I, whose form is i
\* followed by a combining dot.
LowersTo(c, x) ==
    \/ c = x
    \/ c \in DOMAIN CaseTable /\ CaseTable[c] = x
    \/ c = "U+212A" /\ x = "k"

\* s[a..b], the empty string when a > b.
Slice(s, a, b) == IF a > b THEN << >> ELSE SubSeq(s, a, b)

\* pat occurs in s at position k.
MatchesAt(s, pat, k) ==
    /\ k >= 1
    /\ k + Len(pat) - 1 <= Len(s)
    /\ \A j \in 1..Len(pat) : s[k + j - 1] = pat[j]

\* The same, ignoring letter case.
MatchesAtIgnoreCase(s, pat, k) ==
    /\ k >= 1
    /\ k + Len(pat) - 1 <= Len(s)
    /\ \A j \in 1..Len(pat) : Lower(s[k + j - 1]) = Lower(pat[j])

\* The first position from k on where pat occurs in s, 0 when there is none.
RECURSIVE FindFrom(_, _, _)
FindFrom(s, pat, k) ==
    IF k > Len(s) THEN 0
    ELSE IF MatchesAt(s, pat, k) THEN k
    ELSE FindFrom(s, pat, k + 1)

\* str.find: the first position where pat occurs in s, 0 when it does not.
Find(s, pat) == FindFrom(s, pat, 1)

\* The first position from k on that holds no whitespace (Len(s) + 1 when
\* there is none), and the last such position down from k (0 when none).
RECURSIVE SkipSpaces(_, _)
SkipSpaces(s, k) ==
    IF k <= Len(s) /\ IsSpace(s[k]) THEN SkipSpaces(s, k + 1) ELSE k

RECURSIVE SkipSpacesBack(_, _)
SkipSpacesBack(s, k) ==
    IF k >= 1 /\ IsSpace(s[k]) THEN SkipSpacesBack(s, k - 1) ELSE k

\* str.strip(): leading and trailing whitespace removed.
Strip(s) == Slice(s, SkipSpaces(s, 1), SkipSpacesBack(s, Len(s)))

\* s.split(sep, 1): at most two parts, cut at the first occurrence of sep.
SplitOnce(s, sep) ==
    LET k == Find(s, sep)
    IN  IF k = 0 THEN <<s>>
        ELSE <<Slice(s, 1, k - 1), Slice(s, k + Len(sep), Len(s))>>

\* s.split(sep): every part, cut at each occurrence of a one-character sep.
RECURSIVE SplitAll(_, _)
SplitAll(s, sep) ==
    LET k == Find(s, <<sep>>)
    IN  IF k = 0 THEN <<s>>
        ELSE <<Slice(s, 1, k - 1)>> \o SplitAll(Slice(s, k + 1, Len(s)), sep)

(***************************************************************************)
(* Track.parse_tracklist_line                                              *)
(***************************************************************************)

Sep == <<" ", "-", " ">>

\* The alternatives of (?:Remix|Mix|Dub).
Keywords ==
    {<<"R", "e", "m", "i", "x">>, <<"M", "i", "x">>, <<"D", "u", "b">>}

\* (?:Remix|Mix|Dub) matches in s at position k, case-insensitively (the match
\* lies wholly inside s).
KeywordAt(s, k) ==
    \E kw \in Keywords : MatchesAtIgnoreCase(s, kw, k)

\* The pattern \((.*(?:Remix|Mix|Dub).*)\)$ matches s from position p:
\* s[p] is "(", the last character is ")", no line break lies between (the
\* dot does not match one) and a keyword occurs between them.
RemixMatchesFrom(s, p) ==
    /\ p >= 1
    /\ p < Len(s)
    /\ s[p] = "("
    /\ s[Len(s)] = ")"
    /\ \A k \in (p + 1)..(Len(s) - 1) : s[k] # "\n"
    /\ \E k \in (p + 1)..(Len(s) - 1) : KeywordAt(Slice(s, 1, Len(s) - 1), k)

\* re.search tries the positions from left to right.
RECURSIVE RemixSearchFrom(_, _)
RemixSearchFrom(s, p) ==
    IF p > Len(s) THEN 0
    ELSE IF RemixMatchesFrom(s, p) THEN p
    ELSE RemixSearchFrom(s, p + 1)

\* re.search: the leftmost position the pattern matches from, 0 when none.
RemixSearch(s) == RemixSearchFrom(s, 1)

\* remix_match.group(1): the text between the matched "(" and the final ")".
RemixGroup(s) ==
    LET p == RemixSearch(s)
    IN  IF p = 0 THEN << >> ELSE Slice(s, p + 1, Len(s) - 1)

\* re.sub(r'\s*\(.*(?:Remix|Mix|Dub).*\)$', '', s): the match starts at the
\* first character of the whitespace run that precedes the matched "(".
RECURSIVE RunStart(_, _)
RunStart(s, p) ==
    IF p > 1 /\ IsSpace(s[p - 1]) THEN RunStart(s, p - 1) ELSE p

RemixRemoved(s) ==
    LET p == RemixSearch(s)
    IN  IF p = 0 THEN s ELSE Slice(s, 1, RunStart(s, p) - 1)

NoTrack == [ok |-> FALSE]

\* The last position where pat occurs in s, 0 when it does not.
FindLast(s, pat) ==
    LET hits == {k \in 1..Len(s) : MatchesAt(s, pat, k)}
    IN  IF hits = {} THEN 0 ELSE CHOOSE k \in hits : \A h \in hits : k >= h

\* if ' - ' in track_info: artist, title = track_info.split(' - ', 1)
\* else: artist = track_info; title = ""
SplitArtistTitle(track_info) ==
    LET at == SplitOnce(track_info, Sep)
    IN  IF Len(at) = 2 THEN at ELSE <<track_info, << >> >>

\* parts = line.strip().split(' ', 1)
SplitTimestamp(ln) == SplitOnce(Strip(ln), <<" ">>)

\* Track.parse_tracklist_line: the Track of a line, NoTrack when the line is
\* rejected (ValueError).
ParseTracklistLine(ln) ==
    LET parts == SplitTimestamp(ln)
    IN  IF Len(parts) < 2 THEN NoTrack
        ELSE LET timestamp  == parts[1]
                 info0      == parts[2]
                 remix_info == RemixGroup(info0)
                 track_info == IF remix_info # << >> THEN RemixRemoved(info0)
                               ELSE info0
                 at         == SplitArtistTitle(track_info)
             IN  [ok |-> TRUE, timestamp |-> timestamp,
                  artist |-> Strip(at[1]), title |-> Strip(at[2]),
                  remix_info |-> remix_info]

(***************************************************************************)
(* parse_tracklist                                                         *)
(***************************************************************************)

RECURSIVE ParseLinesAbort(_)
\* Mutant of ParseLines: the first line the parser rejects ends the loop.
ParseLinesAbort(lines) ==
    IF lines = << >> THEN << >>
    ELSE LET ln == Head(lines)
             t  == ParseTracklistLine(ln)
         IN  IF Strip(ln) = << >> THEN ParseLinesAbort(Tail(lines))
             ELSE IF ~t.ok THEN << >>
             ELSE <<t>> \o ParseLinesAbort(Tail(lines))

\* The loop of parse_tracklist over the lines: a blank line is passed over, a
\* line the parser rejects is logged and passed over, every other line
\* appends its Track.
RECURSIVE ParseLines(_)
ParseLines(lines) ==
    IF lines = << >> THEN << >>
    ELSE LET ln == Head(lines)
             t  == ParseTracklistLine(ln)
         IN  IF Strip(ln) = << >> THEN ParseLines(Tail(lines))
             ELSE IF ~t.ok THEN ParseLines(Tail(lines))
             ELSE <<t>> \o ParseLines(Tail(lines))

ParseTracklist(tracklist_text) ==
    ParseLines(SplitAll(Strip(tracklist_text), "\n"))

(***************************************************************************)
(* Dictionaries.  The dict of a track (platform -> results), which the     *)
(* table writer iterates, is the sequence of its items <<key, value>> in   *)
(* insertion order.  The ResultSet (track index -> dict of the track),     *)
(* read by key, is a function on its keys.                                 *)
(***************************************************************************)

EmptyDict == << >>

\* d.get(k, {}) for the ResultSet
GetOrEmpty(d, k) == IF k \in DOMAIN d THEN d[k] ELSE EmptyDict

\* d[k] = v for the ResultSet
Put(d, k, v) == [x \in (DOMAIN d) \cup {k} |-> IF x = k THEN v ELSE d[x]]

\* The keys of the dict of a track.
Keys(d) == {d[n][1] : n \in DOMAIN d}

\* d[k] for a key of the dict of a track.
Get(d, k) == d[CHOOSE n \in DOMAIN d : d[n][1] = k][2]

\* d[k] = v for the dict of a track: a new key comes last, a key already
\* present keeps its place.
SetItem(d, k, v) ==
    IF k \in Keys(d)
    THEN [n \in DOMAIN d |-> IF d[n][1] = k THEN <<k, v>> ELSE d[n]]
    ELSE Append(d, <<k, v>>)

(***************************************************************************)
(* The platform adapters (MusicStoreSearcher.search_<platform>)            *)
(*                                                                         *)
(* What a storefront answers is the environment's choice:                  *)
(*   network_error  session.get raises (timeout, connection reset)         *)
(*   parse_error    the response cannot be parsed (BeautifulSoup raises)   *)
(*   http_error     a status other than 200                                *)
(*   no_container   a page without the result list                         *)
(*   page           a page whose result list holds items, each one         *)
(*                  "ok" (it has the link the adapter looks for),          *)
(*                  "nolink" (it has none) or "broken" (reading it raises) *)
(* The item at position k of a page links to "/k".                         *)
(***************************************************************************)

\* for result in search_results[:3]
ResultCap == 3

\* Largest result list of a page when one track is searched (SpecSearch) and
\* when a whole tracklist is (Spec).
MaxItems == 4
PipeItems == 2

ItemKinds == {"ok", "nolink", "broken"}

Digits == <<"1", "2", "3", "4", "5", "6", "7", "8", "9">>

RECURSIVE SeqsUpTo(_, _)
SeqsUpTo(S, n) ==
    IF n = 0 THEN {<< >>}
    ELSE LET shorter == SeqsUpTo(S, n - 1)
         IN  shorter \cup {Append(q, x) : q \in {r \in shorter : Len(r) = n - 1}, x \in S}

NoDoc == [kind |-> "none"]

\* The answers the environment may give: pages of at most n items of the
\* given kinds, and the faults.
Responses(n, kinds) ==
    {[kind |-> k] : k \in {"network_error", "parse_error", "http_error", "no_container"}}
      \cup {[kind |-> "page", items |-> q] : q \in SeqsUpTo(kinds, n)}

PlatformNames == <<"bandcamp", "beatport", "traxsource", "hardwax">>

BaseUrl(platform) ==
    CASE platform = "bandcamp"   -> "https://bandcamp.com"
      [] platform = "beatport"   -> "https://www.beatport.com"
      [] platform = "traxsource" -> "https://www.traxsource.com"
      [] platform = "hardwax"    -> "https://hardwax.com"

\* query = f"{artist} {title}".strip()
Query(artist, title) == Strip(artist \o <<" ">> \o title)

\* The SearchResult an adapter builds from the item at position k.
NewResult(label, base, k, artist, price) ==
    [platform |-> label, artist |-> artist, title |-> <<"T">>,
     url |-> <<base, "/", Digits[k]>>, price |-> price]

RECURSIVE CollectUncapped(_, _, _, _, _, _)
\* Mutant of Collect: the loop runs over every item of the page.
CollectUncapped(items, k, label, base, artist, price) ==
    IF k > Len(items) THEN << >>
    ELSE (IF items[k] = "ok" THEN <<NewResult(label, base, k, artist, price)>>
          ELSE << >>)
         \o CollectUncapped(items, k + 1, label, base, artist, price)

\* The loop over the first ResultCap items: an item with the link appends its
\* SearchResult, one without is passed over, one that raises is logged and
\* passed over.
RECURSIVE Collect(_, _, _, _, _, _)
Collect(items, k, label, base, artist, price) ==
    IF k > Len(items) \/ k > ResultCap THEN << >>
    ELSE (IF items[k] = "ok" THEN <<NewResult(label, base, k, artist, price)>>
          ELSE << >>)
         \o Collect(items, k + 1, label, base, artist, price)

\* The part the four adapters share: no request for an empty query, nothing
\* for a fault (the outer except), a status other than 200 or a page without
\* the list, else the loop.
Adapter(artist, title, resp, label, base, found_artist, price) ==
    IF Query(artist, title) = << >> THEN << >>
    ELSE IF resp.kind # "page" THEN << >>
    ELSE Collect(resp.items, 1, label, base, found_artist, price)

SearchBandcamp(artist, title, resp) ==
    Adapter(artist, title, resp, "Bandcamp", BaseUrl("bandcamp"), <<"A">>, << >>)

SearchBeatport(artist, title, resp) ==
    Adapter(artist, title, resp, "Beatport", BaseUrl("beatport"), <<"A">>, <<"$">>)

SearchTraxsource(artist, title, resp) ==
    Adapter(artist, title, resp, "Traxsource", BaseUrl("traxsource"), <<"A">>, << >>)

SearchHardwax(artist, title, resp) ==
    Adapter(artist, title, resp, "Hardwax", BaseUrl("hardwax"), << >>, << >>)

\* platforms[platform_name](track.artist, track.title)
SearchFunc(platform, artist, title, resp) ==
    CASE platform = "bandcamp"   -> SearchBandcamp(artist, title, resp)
      [] platform = "beatport"   -> SearchBeatport(artist, title, resp)
      [] platform = "traxsource" -> SearchTraxsource(artist, title, resp)
      [] platform = "hardwax"    -> SearchHardwax(artist, title, resp)

\* Mutant of StoreResults: the key is set whatever the adapter returned.
StoreResultsAlways(all, platform, found) == SetItem(all, platform, found)

\* if results: all_results[platform_name] = results
StoreResults(all, platform, found) ==
    IF found # << >> THEN SetItem(all, platform, found) ELSE all

\* Mutant of MorePlatforms: the loop ends before the last platform.
MorePlatformsButLast(k) == k < Len(PlatformNames) - 1

\* for platform_name, search_func in platforms.items(): a platform is left
\* after the one at position k.
MorePlatforms(k) == k < Len(PlatformNames)

\* An adapter issues its request (session.get) unless the query is empty.
IssuesRequest(artist, title) == Query(artist, title) # << >>

(***************************************************************************)
(* save_results_to_csv                                                     *)
(***************************************************************************)

NoResultsFound == "No results found"

SentinelRow(track) ==
    [timestamp |-> track.timestamp, original_artist |-> track.artist,
     original_title |-> track.title, remix_info |-> track.remix_info,
     platform |-> NoResultsFound, found_artist |-> << >>,
     found_title |-> << >>, url |-> << >>, price |-> << >>]

ResultRow(track, result) ==
    [timestamp |-> track.timestamp, original_artist |-> track.artist,
     original_title |-> track.title, remix_info |-> track.remix_info,
     platform |-> result.platform, found_artist |-> result.artist,
     found_title |-> result.title, url |-> result.url, price |-> result.price]

\* for result in results: writer.writerow(...)
RECURSIVE ResultRows(_, _)
ResultRows(track, results) ==
    IF results = << >> THEN << >>
    ELSE <<ResultRow(track, Head(results))>> \o ResultRows(track, Tail(results))

\* for platform, results in track_results.items(): ...
RECURSIVE PlatformRows(_, _, _)
PlatformRows(track, track_results, k) ==
    IF k > Len(track_results) THEN << >>
    ELSE ResultRows(track, track_results[k][2])
         \o PlatformRows(track, track_results, k + 1)

\* Mutant of TrackRows: a track without results writes no row.
TrackRowsNoSentinel(track, track_results) ==
    PlatformRows(track, track_results, 1)

\* The rows one track contributes.
TrackRows(track, track_results) ==
    IF track_results = EmptyDict THEN <<SentinelRow(track)>>
    ELSE PlatformRows(track, track_results, 1)

\* for i, track in enumerate(tracks): ... (i counts from 0)
RECURSIVE RowsFrom(_, _, _)
RowsFrom(tracks, all_results, i) ==
    IF i >= Len(tracks) THEN << >>
    ELSE TrackRows(tracks[i + 1], GetOrEmpty(all_results, i))
         \o RowsFrom(tracks, all_results, i + 1)

SaveResultsToCsv(tracks, all_results) == RowsFrom(tracks, all_results, 0)

(***************************************************************************)
(* Floating point: (count / total_tracks) * 100 is computed in IEEE 754    *)
(* binary64.  A positive double is [m1, m2, m3, exp]: its 53-bit           *)
(* significand is m1 * 2^34 + m2 * 2^16 + m3 with 2^18 <= m1 < 2^19,       *)
(* m2 < 2^18 and m3 < 2^16 (three limbs, each within the model checker's    *)
(* integers), and its value is the significand times 2^exp.                *)
(***************************************************************************)

\* Significand bits of a binary64 (sys.float_info.mant_dig).
MantDig == 53

\* Bits of the three limbs: 19 + 18 + 16 = MantDig.
LimbHi == 19
LimbMid == 18
LimbLo == 16

RECURSIVE Pow2(_)
Pow2(k) == IF k = 0 THEN 1 ELSE 2 * Pow2(k - 1)

FZero == [m1 |-> 0, m2 |-> 0, m3 |-> 0, exp |-> 0]

\* Carries of the low limbs moved up; a significand that reaches 2^53 is
\* renormalised.
Normal(m1, m2, m3, exp) ==
    LET n3 == m3 % Pow2(LimbLo)
        a2 == m2 + m3 \div Pow2(LimbLo)
        n2 == a2 % Pow2(LimbMid)
        a1 == m1 + a2 \div Pow2(LimbMid)
    IN  IF a1 >= Pow2(LimbHi)
        THEN [m1 |-> a1 \div 2, m2 |-> 0, m3 |-> 0, exp |-> exp + 1]
        ELSE [m1 |-> a1, m2 |-> n2, m3 |-> n3, exp |-> exp]

\* Round to nearest, ties to even: guard is the first digit dropped, sticky
\* tells that a later one is not zero.
Rounded(m1, m2, m3, exp, guard, sticky) ==
    LET up == guard = 1 /\ (sticky \/ m3 % 2 = 1)
    IN  Normal(m1, m2, IF up THEN m3 + 1 ELSE m3, exp)

RECURSIVE BitLength(_)
BitLength(n) == IF n = 0 THEN 0 ELSE 1 + BitLength(n \div 2)

\* float(n) for an integer 0 <= n < 2^19: exact.
FromInt(n) ==
    IF n = 0 THEN FZero
    ELSE [m1 |-> n * Pow2(LimbHi - BitLength(n)), m2 |-> 0, m3 |-> 0,
          exp |-> BitLength(n) - MantDig]

RECURSIVE Shift(_, _, _)
\* The least k with c * 2^k >= t.
Shift(c, t, k) == IF c >= t THEN k ELSE Shift(2 * c, t, k + 1)

\* count / total_tracks for integers 0 <= count <= total_tracks, total > 0:
\* the quotient correctly rounded.  With q = count * 2^k / total in [1, 2),
\* the 53 digits after the leading 1 come by long division, 18, 18 and 17 at
\* a time; the last of them is the guard digit.  (total_tracks < 2^13 keeps
\* the division within the model checker's integers.)
FDiv(count, total) ==
    IF count = 0 THEN FZero
    ELSE LET k  == Shift(count, total, 0)
             r0 == count * Pow2(k) - total
             d1 == (r0 * Pow2(LimbMid)) \div total
             r1 == (r0 * Pow2(LimbMid)) % total
             d2 == (r1 * Pow2(LimbMid)) \div total
             r2 == (r1 * Pow2(LimbMid)) % total
             d3 == (r2 * Pow2(LimbLo + 1)) \div total
             r3 == (r2 * Pow2(LimbLo + 1)) % total
         IN  Rounded(Pow2(LimbMid) + d1, d2, d3 \div 2, 1 - MantDig - k,
                     d3 % 2, r3 # 0)

\* x * 100 for a double x >= 0, correctly rounded: the exact product has 59
\* or 60 bits, of which the low 6 or 7 are rounded away.
FMul100(x) ==
    IF x = FZero THEN FZero
    ELSE LET p3 == x.m3 * 100
             l3 == p3 % Pow2(LimbLo)
             p2 == x.m2 * 100 + p3 \div Pow2(LimbLo)
             l2 == p2 % Pow2(LimbMid)
             p1 == x.m1 * 100 + p2 \div Pow2(LimbMid)
             s  == IF p1 < Pow2(LimbHi + 6) THEN 6 ELSE 7
             lo == l2 * Pow2(LimbLo - s) + l3 \div Pow2(s)
         IN  Rounded(p1 \div Pow2(s),
                     (p1 % Pow2(s)) * Pow2(LimbMid - s) + lo \div Pow2(LimbLo),
                     lo % Pow2(LimbLo),
                     x.exp + s,
                     (l3 \div Pow2(s - 1)) % 2,
                     l3 % Pow2(s - 1) # 0)

\* x <= y for doubles x, y >= 0.
FLeq(x, y) ==
    IF x = FZero THEN TRUE
    ELSE IF y = FZero THEN FALSE
    ELSE IF x.exp # y.exp THEN x.exp < y.exp
    ELSE IF x.m1 # y.m1 THEN x.m1 < y.m1
    ELSE IF x.m2 # y.m2 THEN x.m2 < y.m2
    ELSE x.m3 <= y.m3

(***************************************************************************)
(* generate_stats                                                          *)
(***************************************************************************)

\* found_tracks: the indexes i in range(total_tracks) with a non-empty entry.
FoundTracks(tracks, all_results) ==
    Cardinality({i \in 0..(Len(tracks) - 1) :
                    i \in DOMAIN all_results /\ Keys(all_results[i]) # {}})

\* The keys of platform_stats: every platform of every entry.
StatPlatforms(all_results) ==
    UNION {Keys(all_results[i]) : i \in DOMAIN all_results}

\* platform_stats[platform]: the entries whose list for it is not empty.
PlatformCount(all_results, platform) ==
    Cardinality({i \in DOMAIN all_results :
                    /\ platform \in Keys(all_results[i])
                    /\ Get(all_results[i], platform) # << >>})

\* Mutant of Rate: the quotient is not scaled to a percentage.
RateUnscaled(count, total_tracks) == FDiv(count, total_tracks)

\* platform_rates[platform] = (count / total_tracks) * 100
Rate(count, total_tracks) == FMul100(FDiv(count, total_tracks))

\* generate_stats divides by total_tracks when it computes a rate (line 320)
\* and when it writes the summary (line 327): with no track it raises.
StatsRaises(tracks, all_results) == Len(tracks) = 0

PlatformRates(tracks, all_results) ==
    [p \in StatPlatforms(all_results) |->
        Rate(PlatformCount(all_results, p), Len(tracks))]

(***************************************************************************)
(* The run: main() of music_store_search.py                                *)
(*   parse -> for each track: search_all_platforms (each adapter, then     *)
(*   time.sleep(1)) -> time.sleep(2) -> save_results_to_csv ->             *)
(*   generate_stats                                                        *)
(***************************************************************************)

VARIABLES
    pc,           \* where the run stands
    text,         \* tracklist_text
    tracks,       \* the parsed Tracks
    i,            \* index of the track being searched, counted from 0
    pidx,         \* position in PlatformNames of the adapter being invoked
    results,      \* all_results of search_all_platforms, for the current track
    doc,          \* what the storefront answered to the adapter just invoked
    invoked,      \* the adapters invoked for the current track, in order
    requests,     \* requests issued for the current track
    unslept,      \* requests issued since the last time.sleep
    all_results,  \* the ResultSet: track index -> platform -> SearchResults
    rows,         \* the rows written by save_results_to_csv
    rates,        \* platform_rates returned by generate_stats
    err,          \* the exception that ended the run, "" when none
    line,         \* a line handed to Track.parse_tracklist_line
    parsed,       \* what it returned
    calls,        \* adapter invocations since the run began
    artist_page,  \* what the mix database answered for the artist page
    mix_links,    \* mix_links of get_mix_urls_from_artist_page
    mix_idx,      \* how many of the mixes have been fetched
    mix_page,     \* what the mix database answered for the mix page
    tracklist,    \* the text get_tracklist_from_mix_page returned
    tracklists,   \* all_tracklists of scrape_artist_tracklists
    user_input,   \* what the operator typed at the prompt of digger.main
    status,       \* HTTP status of the answer of /search, 0 before it
    detail        \* its detail

\* The state of the scraper (digger.py) and of the endpoint (server.py).
scraper == <<artist_page, mix_links, mix_idx, mix_page, tracklist, tracklists, user_input,
             status, detail>>

vars == <<pc, text, tracks, i, pidx, results, doc, invoked, requests, unslept,
          all_results, rows, rates, err, line, parsed, calls, scraper>>

\* Nothing fetched, nothing typed, nothing answered.
IdleScraper ==
    /\ calls = 0
    /\ artist_page = NoDoc /\ mix_links = << >> /\ mix_idx = 0
    /\ mix_page = NoDoc /\ tracklist = << >> /\ tracklists = << >>
    /\ user_input = << >>
    /\ status = 0 /\ detail = << >>

\* Sample tracklist lines: a full line, a line that is only a remix
\* annotation (its artist and title are empty), a line of one token, a blank
\* line.
LineFull   == <<"1", " ", "a", " ", "-", " ", "b">>
LineRemix  == <<"2", " ", "(", "D", "u", "b", ")">>
LineToken  == <<"x">>
LineBlank  == <<" ">>

SampleLines == {LineFull, LineRemix, LineToken, LineBlank}

\* Tracklists of no line, one line and two lines.
Texts ==
    {<< >>} \cup SampleLines
      \cup {a \o <<"\n">> \o b : a \in SampleLines, b \in SampleLines}

Idle ==
    /\ tracks = << >> /\ i = 0 /\ pidx = 0 /\ results = EmptyDict
    /\ doc = NoDoc /\ invoked = << >> /\ requests = 0 /\ unslept = 0
    /\ all_results = EmptyDict /\ rows = << >> /\ rates = EmptyDict
    /\ err = "" /\ line = << >> /\ parsed = NoTrack
    /\ IdleScraper

Init ==
    /\ pc = "read"
    /\ text = << >>
    /\ Idle

\* tracklist_text = read_tracklist_file(args.input_file), and the copy of the
\* file into the data directory.
ReadTracklist ==
    /\ pc = "read"
    /\ text' \in Texts
    /\ pc' = "parse"
    /\ UNCHANGED <<calls, scraper, tracks, i, pidx, results, doc, invoked, requests,
                   unslept, all_results, rows, rates, err, line, parsed>>

\* The file cannot be read or copied: main logs 'Failed to read tracklist'
\* and returns; nothing is parsed, searched or written.
ReadFails ==
    /\ pc = "read"
    /\ pc' = "returned"
    /\ UNCHANGED <<calls, scraper, text, tracks, i, pidx, results, doc, invoked,
                   requests, unslept, all_results, rows, rates, err, line, parsed>>

\* tracks = parse_tracklist(tracklist_text); all_results = {}
ParseInput ==
    /\ pc = "parse"
    /\ tracks' = ParseTracklist(text)
    /\ all_results' = EmptyDict
    /\ i' = 0
    /\ pc' = "loop"
    /\ UNCHANGED <<calls, scraper, text, pidx, results, doc, invoked, requests, unslept, rows,
                   rates, err, line, parsed>>

\* The loop takes the next track: search_all_platforms(track) starts.
StartTrack ==
    /\ pc = "loop"
    /\ i < Len(tracks)
    /\ results' = EmptyDict
    /\ pidx' = 1
    /\ invoked' = << >>
    /\ requests' = 0
    /\ pc' = "call"
    /\ UNCHANGED <<calls, scraper, text, tracks, i, doc, unslept, all_results, rows, rates,
                   err, line, parsed>>

\* results = search_func(track.artist, track.title); if results:
\* all_results[platform_name] = results.  The adapter catches every
\* exception itself, so the except of search_all_platforms is never entered.
CallAdapter(n, kinds) ==
    /\ pc = "call"
    /\ LET platform == PlatformNames[pidx]
           track    == tracks[i + 1]
           asked    == IssuesRequest(track.artist, track.title)
       IN  \E resp \in (IF asked THEN Responses(n, kinds) ELSE {NoDoc}) :
              LET found == SearchFunc(platform, track.artist, track.title, resp)
              IN  /\ doc' = resp
                  /\ results' = StoreResults(results, platform, found)
                  /\ invoked' = Append(invoked, platform)
                  /\ requests' = IF asked THEN requests + 1 ELSE requests
                  /\ unslept' = IF asked THEN unslept + 1 ELSE unslept
    /\ calls' = calls + 1
    /\ pc' = "sleep"
    /\ UNCHANGED <<scraper, text, tracks, i, pidx, all_results, rows, rates, err, line,
                   parsed>>

\* time.sleep(1), then the next platform or return all_results.
Sleep ==
    /\ pc = "sleep"
    /\ unslept' = 0
    /\ doc' = NoDoc
    /\ IF MorePlatforms(pidx)
       THEN pidx' = pidx + 1 /\ pc' = "call"
       ELSE pidx' = pidx /\ pc' = "return"
    /\ UNCHANGED <<calls, scraper, text, tracks, i, results, invoked, requests, all_results,
                   rows, rates, err, line, parsed>>

\* if results: all_results[i] = results; time.sleep(2)
FinishTrack ==
    /\ pc = "return"
    /\ all_results' = IF Keys(results) # {} THEN Put(all_results, i, results)
                      ELSE all_results
    /\ results' = EmptyDict
    /\ pidx' = 0
    /\ invoked' = << >>
    /\ requests' = 0
    /\ i' = i + 1
    /\ pc' = "loop"
    /\ UNCHANGED <<calls, scraper, text, tracks, doc, unslept, rows, rates, err, line, parsed>>

\* results_file = save_results_to_csv(tracks, all_results, run_dir)
SaveResults ==
    /\ pc = "loop"
    /\ i >= Len(tracks)
    /\ rows' = SaveResultsToCsv(tracks, all_results)
    /\ pc' = "stats"
    /\ UNCHANGED <<calls, scraper, text, tracks, i, pidx, results, doc, invoked, requests, unslept,
                   all_results, rates, err, line, parsed>>

\* platform_rates = generate_stats(tracks, all_results, stats_file)
GenerateStats ==
    /\ pc = "stats"
    /\ IF StatsRaises(tracks, all_results)
       THEN /\ err' = "ZeroDivisionError"
            /\ pc' = "crashed"
            /\ rates' = rates
       ELSE /\ err' = err
            /\ pc' = "done"
            /\ rates' = PlatformRates(tracks, all_results)
    /\ UNCHANGED <<calls, scraper, text, tracks, i, pidx, results, doc, invoked, requests, unslept,
                   all_results, rows, line, parsed>>

Next ==
    \/ ReadTracklist
    \/ ReadFails
    \/ ParseInput
    \/ StartTrack
    \/ CallAdapter(PipeItems, {"ok"})
    \/ Sleep
    \/ FinishTrack
    \/ SaveResults
    \/ GenerateStats

Spec == Init /\ [][Next]_vars

(***************************************************************************)
(* SpecSearch: search_all_platforms for one track, the storefronts         *)
(* answering with pages of up to MaxItems items of every kind.             *)
(***************************************************************************)

InitSearch ==
    /\ pc = "parse"
    /\ text \in {LineFull, LineRemix}
    /\ Idle

NextSearch ==
    \/ ParseInput
    \/ StartTrack
    \/ CallAdapter(MaxItems, ItemKinds)
    \/ Sleep
    \/ FinishTrack
    \/ SaveResults
    \/ GenerateStats

SpecSearch == InitSearch /\ [][NextSearch]_vars

(***************************************************************************)
(* SpecParse: Track.parse_tracklist_line applied to one line, the line     *)
(* being any string of at most MaxTokens tokens.                           *)
(***************************************************************************)

MaxTokens == 6

Tokens ==
    {<<"a">>, <<" ">>, <<"\t">>, <<" ", "-", " ">>, <<"(", "a", ")">>,
     <<"(", "d", "u", "b", ")">>}

RECURSIVE Flatten(_)
Flatten(q) == IF q = << >> THEN << >> ELSE Head(q) \o Flatten(Tail(q))

\* The lines of at most n tokens.
Lines(n) == {Flatten(q) : q \in SeqsUpTo(Tokens, n)}

InitParse ==
    /\ pc = "line"
    /\ line \in Lines(MaxTokens)
    /\ text = << >> /\ tracks = << >> /\ i = 0 /\ pidx = 0
    /\ results = EmptyDict /\ doc = NoDoc /\ invoked = << >>
    /\ requests = 0 /\ unslept = 0
    /\ all_results = EmptyDict /\ rows = << >> /\ rates = EmptyDict
    /\ err = "" /\ parsed = NoTrack
    /\ IdleScraper

\* track = Track.parse_tracklist_line(line); ValueError when it rejects.
ParseLine ==
    /\ pc = "line"
    /\ parsed' = ParseTracklistLine(line)
    /\ err' = IF parsed'.ok THEN "" ELSE "ValueError"
    /\ pc' = "parsed"
    /\ UNCHANGED <<calls, scraper, text, tracks, i, pidx, results, doc, invoked, requests, unslept,
                   all_results, rows, rates, line>>

NextParse == ParseLine

SpecParse == InitParse /\ [][NextParse]_vars

(***************************************************************************)
(* SpecReport: save_results_to_csv and generate_stats applied to a         *)
(* tracklist and a ResultSet as the search loop leaves them:               *)
(*  - up to MaxStatTracks tracks, any of them with one result on one       *)
(*    platform;                                                            *)
(*  - up to two tracks, each with no entry, an empty entry, or any         *)
(*    platforms with 1..PipeItems results on each of them.                 *)
(***************************************************************************)

MaxStatTracks == 10

LineOther == <<"3", " ", "c">>

RECURSIVE Repeat(_, _)
\* n lines ln, one per line of the text.
Repeat(ln, n) ==
    IF n <= 1 THEN ln ELSE ln \o <<"\n">> \o Repeat(ln, n - 1)

\* What the adapter of a platform returns for a page of n items with links.
Hits(platform, n) ==
    SearchFunc(platform, <<"a">>, <<"b">>,
               [kind |-> "page", items |-> [k \in 1..n |-> "ok"]])

PlatformSet == {PlatformNames[k] : k \in 1..Len(PlatformNames)}

\* ResultSets over n tracks in which some tracks have one result on platform.
SingleResultSets(n, platform) ==
    {[k \in S |-> <<<<platform, Hits(platform, 1)>>>>] :
        S \in SUBSET (0..(n - 1))}

\* The entries a track may have: any platforms, each with the same number
\* 1..PipeItems of results, and the empty entry.  EntryOf is the dict
\* search_all_platforms builds when the platforms of P return n results
\* each: the keys come in the order of PlatformNames.
Entries ==
    LET RECURSIVE EntryOf(_, _, _)
        EntryOf(P, n, k) ==
            IF k > Len(PlatformNames) THEN EmptyDict
            ELSE (IF PlatformNames[k] \in P
                  THEN <<<<PlatformNames[k], Hits(PlatformNames[k], n)>>>>
                  ELSE << >>)
                 \o EntryOf(P, n, k + 1)
    IN  {EntryOf(P, n, 1) : P \in SUBSET PlatformSet, n \in 1..PipeItems}

\* ResultSets over n tracks, each track without an entry or with one.
MixedResultSets(n) ==
    UNION {[S -> Entries] : S \in SUBSET (0..(n - 1))}

\* The tracklists of the first kind and of the second, each with its Tracks.
LongInputs ==
    {[text |-> Repeat(LineFull, n), tracks |-> ParseTracklist(Repeat(LineFull, n))] :
        n \in 1..MaxStatTracks}

ShortInputs ==
    {[text |-> t, tracks |-> ParseTracklist(t)] :
        t \in {<< >>, LineFull, LineFull \o <<"\n">> \o LineOther}}

InitReport ==
    /\ pc = "loop"
    /\ \/ \E inp \in LongInputs : \E p \in PlatformSet :
             /\ text = inp.text
             /\ tracks = inp.tracks
             /\ all_results \in SingleResultSets(Len(inp.tracks), p)
       \/ \E inp \in ShortInputs :
             /\ text = inp.text
             /\ tracks = inp.tracks
             /\ all_results \in MixedResultSets(Len(inp.tracks))
    /\ i = Len(tracks)
    /\ pidx = 0 /\ results = EmptyDict /\ doc = NoDoc /\ invoked = << >>
    /\ requests = 0 /\ unslept = 0 /\ rows = << >> /\ rates = EmptyDict
    /\ err = "" /\ line = << >> /\ parsed = NoTrack
    /\ IdleScraper

NextReport ==
    \/ SaveResults
    \/ GenerateStats

SpecReport == InitReport /\ [][NextReport]_vars

(***************************************************************************)
(* Properties of the coordinator and the adapters (SpecSearch)             *)
(***************************************************************************)

\* The platform whose adapter was invoked last.
Current == PlatformNames[pidx]

\* Position on its page of the item a SearchResult was built from.
PagePos(result) == CHOOSE k \in 1..Len(Digits) : Digits[k] = result.url[3]

\* The page answered has an item with a link among its first three.
HasUsableItem(d) ==
    /\ d.kind = "page"
    /\ \E k \in 1..Len(d.items) : k <= 3 /\ d.items[k] = "ok"

\* C1: the mapping search_all_platforms builds and returns holds a platform
\* key only if that platform's adapter returned at least one result: right
\* after an adapter ran, its key is present exactly when the storefront
\* answered a page with a usable item, and no key, in the mapping or in the
\* ResultSet, maps to an empty sequence.
C1_OnlyPlatformsWithResults ==
    /\ \A p \in Keys(results) : p \in PlatformSet /\ Get(results, p) # << >>
    /\ \A t \in DOMAIN all_results : \A p \in Keys(all_results[t]) :
          Get(all_results[t], p) # << >>
    /\ pc = "sleep" => (Current \in Keys(results) <=> HasUsableItem(doc))

\* A track was searched: one platform failed or returned nothing and is
\* absent, another returned results and is present.
C1_Witness ==
    /\ pc = "return"
    /\ "bandcamp" \notin Keys(results)
    /\ "hardwax" \in Keys(results)

\* C2, in every state: the adapters are invoked in the order of
\* PlatformNames, each at most once (no retry: never more requests than
\* adapters invoked), no fault reaches the caller, and when
\* search_all_platforms returns all four have been invoked.
C2_EveryAdapterOnce ==
    /\ Len(invoked) <= Len(PlatformNames)
    /\ \A k \in 1..Len(invoked) : invoked[k] = PlatformNames[k]
    /\ requests <= Len(invoked)
    /\ pc \in {"call", "sleep", "return"} => err = ""
    /\ pc = "return" => invoked = PlatformNames

\* C2, in every step: invoking an adapter, whatever the storefront answers,
\* leaves the results of the platforms searched before it as they were.
C2_EarlierResultsKept ==
    pc = "call" /\ pc' = "sleep" =>
        \A p \in Keys(results) : p \in Keys(results') /\ Get(results', p) = Get(results, p)

\* C2: all four adapters are invoked for every track; the failure of one is
\* not propagated, is not retried, and neither stops the remaining adapters
\* nor loses the results of the others.
C2_FailureIsolated == [](C2_EveryAdapterOnce) /\ [][C2_EarlierResultsKept]_vars

\* The first adapter returned results, the second and the third failed, and
\* the fourth was still invoked and returned results.
C2_Witness ==
    /\ pc = "sleep"
    /\ pidx = 4
    /\ requests = 4
    /\ Keys(results) = {"bandcamp", "hardwax"}
    /\ invoked = PlatformNames

\* The results held for the platform just searched are built from the page
\* the storefront answered: from items with a link, in page order.
InPageOrder(found, d) ==
    /\ \A j \in 1..Len(found) :
          /\ PagePos(found[j]) <= Len(d.items)
          /\ d.items[PagePos(found[j])] = "ok"
    /\ \A j, k \in 1..Len(found) : j < k => PagePos(found[j]) < PagePos(found[k])

\* C3: every sequence of SearchResults stored for a (track, platform) pair
\* has at most 3 elements, and they stand in the order of the platform's
\* result list, whatever the number of items on the page.
C3_AtMostThreeInOrder ==
    /\ \A p \in Keys(results) :
          /\ Len(Get(results, p)) <= 3
          /\ \A j, k \in 1..Len(Get(results, p)) :
                j < k => PagePos(Get(results, p)[j]) < PagePos(Get(results, p)[k])
    /\ \A t \in DOMAIN all_results : \A p \in Keys(all_results[t]) :
          /\ Len(Get(all_results[t], p)) <= 3
          /\ \A j, k \in 1..Len(Get(all_results[t], p)) :
                j < k => PagePos(Get(all_results[t], p)[j]) < PagePos(Get(all_results[t], p)[k])
    /\ (pc = "sleep" /\ Current \in Keys(results))
          => InPageOrder(Get(results, Current), doc)

\* A page of four items with links was answered and three results are held.
C3_Witness ==
    /\ pc = "sleep"
    /\ doc.kind = "page"
    /\ Len(doc.items) = 4
    /\ \A k \in 1..4 : doc.items[k] = "ok"
    /\ Current \in Keys(results)
    /\ Len(Get(results, Current)) = 3

(***************************************************************************)
(* Properties of the result table and the statistics                       *)
(***************************************************************************)

\* save_results_to_csv has run.
Saved == pc \in {"stats", "done", "crashed"}

RECURSIVE ResultCount(_, _)
\* The results track t has in the ResultSet, over the platforms from k on.
ResultCount(t, k) ==
    IF k > Len(PlatformNames) THEN 0
    ELSE (IF t \in DOMAIN all_results /\ PlatformNames[k] \in Keys(all_results[t])
          THEN Len(Get(all_results[t], PlatformNames[k])) ELSE 0)
         + ResultCount(t, k + 1)

\* The rows track t is due: one per result, one when it has none.
RowsDue(t) == IF ResultCount(t, 1) = 0 THEN 1 ELSE ResultCount(t, 1)

RECURSIVE RowsBefore(_)
\* The rows due to the tracks before track t.
RowsBefore(t) == IF t = 0 THEN 0 ELSE RowsBefore(t - 1) + RowsDue(t - 1)

\* The positions in the table of the rows of track t.
Block(t) == (RowsBefore(t) + 1)..(RowsBefore(t) + RowsDue(t))

CarriesTrack(row, track) ==
    /\ row.timestamp = track.timestamp
    /\ row.original_artist = track.artist
    /\ row.original_title = track.title
    /\ row.remix_info = track.remix_info

IsSentinel(row) ==
    /\ row.platform = "No results found"
    /\ row.found_artist = << >>
    /\ row.found_title = << >>
    /\ row.url = << >>
    /\ row.price = << >>

ShowsResult(row, result) ==
    /\ row.platform = result.platform
    /\ row.found_artist = result.artist
    /\ row.found_title = result.title
    /\ row.url = result.url
    /\ row.price = result.price

\* C4: the table lists the tracks in their ordinal order, every track has its
\* own block of rows, at least one; a track with no result on any platform
\* (no entry, or an empty entry) has exactly one row, the 'No results found'
\* row with empty found fields; any other track has exactly one row for each
\* of its (platform, result) pairs and no other row.
C4_TableRows ==
    Saved =>
        /\ Len(rows) = RowsBefore(Len(tracks))
        /\ \A t \in 0..(Len(tracks) - 1) :
              LET block == Block(t)
              IN  /\ \A k \in block : CarriesTrack(rows[k], tracks[t + 1])
                  /\ IF t \notin DOMAIN all_results \/ Keys(all_results[t]) = {}
                     THEN /\ Cardinality(block) = 1
                          /\ \A k \in block : IsSentinel(rows[k])
                     ELSE /\ \A k \in block : rows[k].platform # "No results found"
                          /\ \A p \in Keys(all_results[t]) :
                                \A j \in 1..Len(Get(all_results[t], p)) :
                                   Cardinality({k \in block :
                                       ShowsResult(rows[k], Get(all_results[t], p)[j])}) = 1

\* Two tracks: the first has two results on each of two platforms, the
\* second has an empty entry; the table has four rows and then the sentinel.
C4_Witness ==
    /\ Saved
    /\ Len(tracks) = 2
    /\ 0 \in DOMAIN all_results
    /\ Keys(all_results[0]) = {"beatport", "hardwax"}
    /\ Len(Get(all_results[0], "beatport")) = 2
    /\ 1 \in DOMAIN all_results
    /\ all_results[1] = EmptyDict
    /\ Len(rows) = 5
    /\ IsSentinel(rows[5])

\* The tracks with at least one result on platform p.
TracksWithResult(p) ==
    {t \in 0..(Len(tracks) - 1) :
        /\ t \in DOMAIN all_results
        /\ p \in Keys(all_results[t])
        /\ Len(Get(all_results[t], p)) >= 1}

\* C5: with at least one track, generate_stats returns a rate for exactly the
\* platforms observed in the ResultSet; the rate of a platform is (tracks
\* with a result on it) / (tracks) * 100 in double precision, lies between 0
\* and 100, and is 30 for 3 tracks of 10.
C5_PlatformRates ==
    (pc = "done" /\ Len(tracks) >= 1) =>
        /\ DOMAIN rates =
              {p \in PlatformSet : \E t \in DOMAIN all_results : p \in Keys(all_results[t])}
        /\ \A p \in DOMAIN rates :
              LET count == Cardinality(TracksWithResult(p))
              IN  /\ rates[p] = FMul100(FDiv(count, Len(tracks)))
                  /\ FLeq(FZero, rates[p])
                  /\ FLeq(rates[p], FromInt(100))
                  /\ count = Len(tracks) => rates[p] = FromInt(100)
                  /\ (Len(tracks) = 10 /\ count = 3) => rates[p] = FromInt(30)

\* Ten tracks, three of them with a result on Beatport: its rate is 30.
C5_Witness ==
    /\ pc = "done"
    /\ Len(tracks) = 10
    /\ Cardinality(TracksWithResult("beatport")) = 3
    /\ rates["beatport"] = FromInt(30)

(***************************************************************************)
(* Properties of the run (Spec)                                            *)
(***************************************************************************)

\* C6 as the specification states it: with zero tracks the table and the
\* statistics complete and the run ends without an error.  The code raises
\* ZeroDivisionError in generate_stats (line 327), so this is violated.
C6_ZeroTracksNoError ==
    Len(tracks) = 0 => (pc # "crashed" /\ err = "")

\* The lines of the samples that parse, and the Track each gives.
IsGoodLine(ln) == ln \in {LineFull, LineRemix}

TrackOfSample(ln) ==
    IF ln = LineFull
    THEN [ok |-> TRUE, timestamp |-> <<"1">>, artist |-> <<"a">>,
          title |-> <<"b">>, remix_info |-> << >>]
    ELSE [ok |-> TRUE, timestamp |-> <<"2">>, artist |-> << >>,
          title |-> << >>, remix_info |-> <<"D", "u", "b">>]

GoodLinesOf(t) == SelectSeq(SplitAll(t, "\n"), IsGoodLine)

\* C10: parse_tracklist passes over every blank or malformed line and returns
\* one Track for each remaining line, in the order of the lines; a tracklist
\* of two lines, one parseable and one malformed, gives exactly 1 Track, and
\* with no platform hit its table is exactly one 'No results found' row.
C10_SkipMalformedLines ==
    /\ pc # "parse" =>
          LET good == GoodLinesOf(text)
          IN  /\ Len(tracks) = Len(good)
              /\ \A k \in 1..Len(tracks) : tracks[k] = TrackOfSample(good[k])
              /\ (Len(SplitAll(text, "\n")) = 2 /\ Len(good) = 1) => Len(tracks) = 1
    /\ (Saved /\ Len(tracks) = 1 /\ all_results = EmptyDict)
          => (Len(rows) = 1 /\ IsSentinel(rows[1]) /\ CarriesTrack(rows[1], tracks[1]))

\* A parseable line followed by a malformed one: one Track, no hit, one row.
C10_Witness ==
    /\ pc = "done"
    /\ text = LineFull \o <<"\n">> \o LineToken
    /\ Len(tracks) = 1
    /\ all_results = EmptyDict
    /\ Len(rows) = 1
    /\ IsSentinel(rows[1])

(***************************************************************************)
(* Properties of the line parser (SpecParse)                               *)
(***************************************************************************)

\* The first position of s holding a whitespace character, 0 when none does.
FirstWhitespace(s) ==
    LET hits == {k \in 1..Len(s) : IsSpace(s[k])}
    IN  IF hits = {} THEN 0 ELSE CHOOSE k \in hits : \A h \in hits : k <= h

\* The line has the shape "<token> <rest> - <rest2>": a token without
\* whitespace, a space, and a remainder in which " - " occurs.
TokenEnd == Find(Strip(line), <<" ">>)

AfterToken == Slice(Strip(line), TokenEnd + 1, Len(Strip(line)))

HasShape ==
    /\ TokenEnd > 1
    /\ \A k \in 1..(TokenEnd - 1) : ~IsSpace(Strip(line)[k])
    /\ Find(AfterToken, Sep) > 0

\* <rest> and <rest2>: the remainder before and after its first " - ".
Rest == Slice(AfterToken, 1, Find(AfterToken, Sep) - 1)

Rest2 == Slice(AfterToken, Find(AfterToken, Sep) + 3, Len(AfterToken))

\* s contains remix, mix or dub, whatever the letter case.
HasKeyword(s) ==
    \E k \in 1..Len(s) : \E kw \in Keywords :
        /\ k + Len(kw) - 1 <= Len(s)
        /\ \A j \in 1..Len(kw) : Lower(s[k + j - 1]) = Lower(kw[j])

\* The track info of a line the parser accepts: the text after the first
\* space of the stripped line.
TrackInfo == AfterToken

\* The trailing parenthesised group of s starts at its last "(".
GroupStart(s) == FindLast(s, <<"(">>)

EndsWithRemixGroup(s) ==
    /\ Len(s) > 0
    /\ s[Len(s)] = ")"
    /\ GroupStart(s) > 0
    /\ HasKeyword(Slice(s, GroupStart(s) + 1, Len(s) - 1))

\* C7, for the lines the specification's remix rule leaves alone: every
\* line of the shape "<token> <rest> - <rest2>" whose remainder does not end
\* with a parenthesised group holding remix, mix or dub gives artist = rest
\* trimmed, title = rest2 trimmed (the cut is at the first " - ") and an empty
\* remix_info.  The code matches from the first "(" of the remainder to its
\* final ")": the line "a (dub) - (a)" has the shape, its trailing group
\* "(a)" has no keyword, and the parser gives artist "", title "" and
\* remix_info "dub) - (a", so this is violated.
C7_ShapeGivesArtistTitleNoRemix ==
    (pc = "parsed" /\ HasShape /\ ~EndsWithRemixGroup(AfterToken)) =>
        /\ parsed.ok
        /\ parsed.artist = Strip(Rest)
        /\ parsed.title = Strip(Rest2)
        /\ parsed.remix_info = << >>

\* s without its trailing group and the whitespace before the group.
BeforeGroup(s) == Slice(s, 1, RunStart(s, GroupStart(s)) - 1)

\* C8 as the specification states it: when the track info ends with a
\* parenthesised group holding remix, mix or dub, remix_info is the inner text
\* of that trailing group, and the text before the group (an earlier group
\* included) is split into artist and title at its first " - ".  The code
\* matches from the first "(" of the track info, so a line such as
\* "a (a)(dub)" violates this.
C8_TrailingGroupOnly ==
    (pc = "parsed" /\ TokenEnd > 1 /\ EndsWithRemixGroup(TrackInfo)) =>
        /\ parsed.ok
        /\ parsed.remix_info =
              Slice(TrackInfo, GroupStart(TrackInfo) + 1, Len(TrackInfo) - 1)
        /\ parsed.artist =
              Strip(IF Find(BeforeGroup(TrackInfo), Sep) = 0
                    THEN BeforeGroup(TrackInfo)
                    ELSE Slice(BeforeGroup(TrackInfo), 1,
                               Find(BeforeGroup(TrackInfo), Sep) - 1))
        /\ parsed.title =
              Strip(IF Find(BeforeGroup(TrackInfo), Sep) = 0
                    THEN << >>
                    ELSE Slice(BeforeGroup(TrackInfo),
                               Find(BeforeGroup(TrackInfo), Sep) + 3,
                               Len(BeforeGroup(TrackInfo))))

\* C9 as the specification states it: the stripped line is cut at its first
\* whitespace run, whatever the whitespace; a line with a first token,
\* whitespace and further content is accepted, its timestamp is the first
\* token and is not empty.  The code cuts at the first space only, so a line
\* such as "a<TAB>a" is rejected and this is violated.
C9_SplitOnWhitespaceRun ==
    (pc = "parsed" /\ FirstWhitespace(Strip(line)) > 0) =>
        /\ parsed.ok
        /\ parsed.timestamp = Slice(Strip(line), 1, FirstWhitespace(Strip(line)) - 1)
        /\ parsed.timestamp # << >>

(***************************************************************************)
(* MixesDBScraper.get_tracklist_from_mix_page                              *)
(*                                                                         *)
(* What the mix database answers for a mix page:                           *)
(*   request_error  session.get or raise_for_status raises                 *)
(*   no_content     a page without the content div                         *)
(*   page           a content div holding blocks in document order; a      *)
(*                  block is a list ("ol", its items the texts of its li)  *)
(*                  or a paragraph ("p", one line of text), and a list may *)
(*                  sit in an element the cleaning removes (class          *)
(*                  catlinks, id containing Related or catMixes).          *)
(* The text of an item is what get_text(strip=True) gives for it: one      *)
(* stripped text node, without a line break.                               *)
(***************************************************************************)

DigitChars == <<"0", "1", "2", "3", "4", "5", "6", "7", "8", "9">>

\* The decimal digits above the ASCII range (the pattern \d matches every
\* character of the category Nd).
OtherDigits ==
    {"U+0660", "U+0661", "U+0662", "U+0663", "U+0664", "U+0665", "U+0666",
     "U+0667", "U+0668", "U+0669", "U+06F0", "U+06F1", "U+06F2", "U+06F3",
     "U+06F4", "U+06F5", "U+06F6", "U+06F7", "U+06F8", "U+06F9", "U+07C0",
     "U+07C1", "U+07C2", "U+07C3", "U+07C4", "U+07C5", "U+07C6", "U+07C7",
     "U+07C8", "U+07C9", "U+0966", "U+0967", "U+0968", "U+0969", "U+096A",
     "U+096B", "U+096C", "U+096D", "U+096E", "U+096F", "U+09E6", "U+09E7",
     "U+09E8", "U+09E9", "U+09EA", "U+09EB", "U+09EC", "U+09ED", "U+09EE",
     "U+09EF", "U+0A66", "U+0A67", "U+0A68", "U+0A69", "U+0A6A", "U+0A6B",
     "U+0A6C", "U+0A6D", "U+0A6E", "U+0A6F", "U+0AE6", "U+0AE7", "U+0AE8",
     "U+0AE9", "U+0AEA", "U+0AEB", "U+0AEC", "U+0AED", "U+0AEE", "U+0AEF",
     "U+0B66", "U+0B67", "U+0B68", "U+0B69", "U+0B6A", "U+0B6B", "U+0B6C",
     "U+0B6D", "U+0B6E", "U+0B6F", "U+0BE6", "U+0BE7", "U+0BE8", "U+0BE9",
     "U+0BEA", "U+0BEB", "U+0BEC", "U+0BED", "U+0BEE", "U+0BEF", "U+0C66",
     "U+0C67", "U+0C68", "U+0C69", "U+0C6A", "U+0C6B", "U+0C6C", "U+0C6D",
     "U+0C6E", "U+0C6F", "U+0CE6", "U+0CE7", "U+0CE8", "U+0CE9", "U+0CEA",
     "U+0CEB", "U+0CEC", "U+0CED", "U+0CEE", "U+0CEF", "U+0D66", "U+0D67",
     "U+0D68", "U+0D69", "U+0D6A", "U+0D6B", "U+0D6C", "U+0D6D", "U+0D6E",
     "U+0D6F", "U+0DE6", "U+0DE7", "U+0DE8", "U+0DE9", "U+0DEA", "U+0DEB",
     "U+0DEC", "U+0DED", "U+0DEE", "U+0DEF", "U+0E50", "U+0E51", "U+0E52",
     "U+0E53", "U+0E54", "U+0E55", "U+0E56", "U+0E57", "U+0E58", "U+0E59",
     "U+0ED0", "U+0ED1", "U+0ED2", "U+0ED3", "U+0ED4", "U+0ED5", "U+0ED6",
     "U+0ED7", "U+0ED8", "U+0ED9", "U+0F20", "U+0F21", "U+0F22", "U+0F23",
     "U+0F24", "U+0F25", "U+0F26", "U+0F27", "U+0F28", "U+0F29", "U+1040",
     "U+1041", "U+1042", "U+1043", "U+1044", "U+1045", "U+1046", "U+1047",
     "U+1048", "U+1049", "U+1090", "U+1091", "U+1092", "U+1093", "U+1094",
     "U+1095", "U+1096", "U+1097", "U+1098", "U+1099", "U+17E0", "U+17E1",
     "U+17E2", "U+17E3", "U+17E4", "U+17E5", "U+17E6", "U+17E7", "U+17E8",
     "U+17E9", "U+1810", "U+1811", "U+1812", "U+1813", "U+1814", "U+1815",
     "U+1816", "U+1817", "U+1818", "U+1819", "U+1946", "U+1947", "U+1948",
     "U+1949", "U+194A", "U+194B", "U+194C", "U+194D", "U+194E", "U+194F",
     "U+19D0", "U+19D1", "U+19D2", "U+19D3", "U+19D4", "U+19D5", "U+19D6",
     "U+19D7", "U+19D8", "U+19D9", "U+1A80", "U+1A81", "U+1A82", "U+1A83",
     "U+1A84", "U+1A85", "U+1A86", "U+1A87", "U+1A88", "U+1A89", "U+1A90",
     "U+1A91", "U+1A92", "U+1A93", "U+1A94", "U+1A95", "U+1A96", "U+1A97",
     "U+1A98", "U+1A99", "U+1B50", "U+1B51", "U+1B52", "U+1B53", "U+1B54",
     "U+1B55", "U+1B56", "U+1B57", "U+1B58", "U+1B59", "U+1BB0", "U+1BB1",
     "U+1BB2", "U+1BB3", "U+1BB4", "U+1BB5", "U+1BB6", "U+1BB7", "U+1BB8",
     "U+1BB9", "U+1C40", "U+1C41", "U+1C42", "U+1C43", "U+1C44", "U+1C45",
     "U+1C46", "U+1C47", "U+1C48", "U+1C49", "U+1C50", "U+1C51", "U+1C52",
     "U+1C53", "U+1C54", "U+1C55", "U+1C56", "U+1C57", "U+1C58", "U+1C59",
     "U+A620", "U+A621", "U+A622", "U+A623", "U+A624", "U+A625", "U+A626",
     "U+A627", "U+A628", "U+A629", "U+A8D0", "U+A8D1", "U+A8D2", "U+A8D3",
     "U+A8D4", "U+A8D5", "U+A8D6", "U+A8D7", "U+A8D8", "U+A8D9", "U+A900",
     "U+A901", "U+A902", "U+A903", "U+A904", "U+A905", "U+A906", "U+A907",
     "U+A908", "U+A909", "U+A9D0", "U+A9D1", "U+A9D2", "U+A9D3", "U+A9D4",
     "U+A9D5", "U+A9D6", "U+A9D7", "U+A9D8", "U+A9D9", "U+A9F0", "U+A9F1",
     "U+A9F2", "U+A9F3", "U+A9F4", "U+A9F5", "U+A9F6", "U+A9F7", "U+A9F8",
     "U+A9F9", "U+AA50", "U+AA51", "U+AA52", "U+AA53", "U+AA54", "U+AA55",
     "U+AA56", "U+AA57", "U+AA58", "U+AA59", "U+ABF0", "U+ABF1", "U+ABF2",
     "U+ABF3", "U+ABF4", "U+ABF5", "U+ABF6", "U+ABF7", "U+ABF8", "U+ABF9",
     "U+FF10", "U+FF11", "U+FF12", "U+FF13", "U+FF14", "U+FF15", "U+FF16",
     "U+FF17", "U+FF18", "U+FF19", "U+104A0", "U+104A1", "U+104A2",
     "U+104A3", "U+104A4", "U+104A5", "U+104A6", "U+104A7", "U+104A8",
     "U+104A9", "U+10D30", "U+10D31", "U+10D32", "U+10D33", "U+10D34",
     "U+10D35", "U+10D36", "U+10D37", "U+10D38", "U+10D39", "U+11066",
     "U+11067", "U+11068", "U+11069", "U+1106A", "U+1106B", "U+1106C",
     "U+1106D", "U+1106E", "U+1106F", "U+110F0", "U+110F1", "U+110F2",
     "U+110F3", "U+110F4", "U+110F5", "U+110F6", "U+110F7", "U+110F8",
     "U+110F9", "U+11136", "U+11137", "U+11138", "U+11139", "U+1113A",
     "U+1113B", "U+1113C", "U+1113D", "U+1113E", "U+1113F", "U+111D0",
     "U+111D1", "U+111D2", "U+111D3", "U+111D4", "U+111D5", "U+111D6",
     "U+111D7", "U+111D8", "U+111D9", "U+112F0", "U+112F1", "U+112F2",
     "U+112F3", "U+112F4", "U+112F5", "U+112F6", "U+112F7", "U+112F8",
     "U+112F9", "U+11450", "U+11451", "U+11452", "U+11453", "U+11454",
     "U+11455", "U+11456", "U+11457", "U+11458", "U+11459", "U+114D0",
     "U+114D1", "U+114D2", "U+114D3", "U+114D4", "U+114D5", "U+114D6",
     "U+114D7", "U+114D8", "U+114D9", "U+11650", "U+11651", "U+11652",
     "U+11653", "U+11654", "U+11655", "U+11656", "U+11657", "U+11658",
     "U+11659", "U+116C0", "U+116C1", "U+116C2", "U+116C3", "U+116C4",
     "U+116C5", "U+116C6", "U+116C7", "U+116C8", "U+116C9", "U+11730",
     "U+11731", "U+11732", "U+11733", "U+11734", "U+11735", "U+11736",
     "U+11737", "U+11738", "U+11739", "U+118E0", "U+118E1", "U+118E2",
     "U+118E3", "U+118E4", "U+118E5", "U+118E6", "U+118E7", "U+118E8",
     "U+118E9", "U+11950", "U+11951", "U+11952", "U+11953", "U+11954",
     "U+11955", "U+11956", "U+11957", "U+11958", "U+11959", "U+11C50",
     "U+11C51", "U+11C52", "U+11C53", "U+11C54", "U+11C55", "U+11C56",
     "U+11C57", "U+11C58", "U+11C59", "U+11D50", "U+11D51", "U+11D52",
     "U+11D53", "U+11D54", "U+11D55", "U+11D56", "U+11D57", "U+11D58",
     "U+11D59", "U+11DA0", "U+11DA1", "U+11DA2", "U+11DA3", "U+11DA4",
     "U+11DA5", "U+11DA6", "U+11DA7", "U+11DA8", "U+11DA9", "U+16A60",
     "U+16A61", "U+16A62", "U+16A63", "U+16A64", "U+16A65", "U+16A66",
     "U+16A67", "U+16A68", "U+16A69", "U+16AC0", "U+16AC1", "U+16AC2",
     "U+16AC3", "U+16AC4", "U+16AC5", "U+16AC6", "U+16AC7", "U+16AC8",
     "U+16AC9", "U+16B50", "U+16B51", "U+16B52", "U+16B53", "U+16B54",
     "U+16B55", "U+16B56", "U+16B57", "U+16B58", "U+16B59", "U+1D7CE",
     "U+1D7CF", "U+1D7D0", "U+1D7D1", "U+1D7D2", "U+1D7D3", "U+1D7D4",
     "U+1D7D5", "U+1D7D6", "U+1D7D7", "U+1D7D8", "U+1D7D9", "U+1D7DA",
     "U+1D7DB", "U+1D7DC", "U+1D7DD", "U+1D7DE", "U+1D7DF", "U+1D7E0",
     "U+1D7E1", "U+1D7E2", "U+1D7E3", "U+1D7E4", "U+1D7E5", "U+1D7E6",
     "U+1D7E7", "U+1D7E8", "U+1D7E9", "U+1D7EA", "U+1D7EB", "U+1D7EC",
     "U+1D7ED", "U+1D7EE", "U+1D7EF", "U+1D7F0", "U+1D7F1", "U+1D7F2",
     "U+1D7F3", "U+1D7F4", "U+1D7F5", "U+1D7F6", "U+1D7F7", "U+1D7F8",
     "U+1D7F9", "U+1D7FA", "U+1D7FB", "U+1D7FC", "U+1D7FD", "U+1D7FE",
     "U+1D7FF", "U+1E140", "U+1E141", "U+1E142", "U+1E143", "U+1E144",
     "U+1E145", "U+1E146", "U+1E147", "U+1E148", "U+1E149", "U+1E2F0",
     "U+1E2F1", "U+1E2F2", "U+1E2F3", "U+1E2F4", "U+1E2F5", "U+1E2F6",
     "U+1E2F7", "U+1E2F8", "U+1E2F9", "U+1E950", "U+1E951", "U+1E952",
     "U+1E953", "U+1E954", "U+1E955", "U+1E956", "U+1E957", "U+1E958",
     "U+1E959", "U+1FBF0", "U+1FBF1", "U+1FBF2", "U+1FBF3", "U+1FBF4",
     "U+1FBF5", "U+1FBF6", "U+1FBF7", "U+1FBF8", "U+1FBF9"}

\* \d
IsDigit(c) == (\E k \in 1..Len(DigitChars) : DigitChars[k] = c) \/ c \in OtherDigits

\* str(n) for n >= 0.
RECURSIVE IntToStr(_)
IntToStr(n) ==
    IF n < 10 THEN <<DigitChars[n + 1]>>
    ELSE IntToStr(n \div 10) \o <<DigitChars[(n % 10) + 1]>>

\* '\n'.join(lines)
RECURSIVE Join(_)
Join(lines) ==
    IF lines = << >> THEN << >>
    ELSE IF Len(lines) = 1 THEN lines[1]
    ELSE lines[1] \o <<"\n">> \o Join(Tail(lines))

\* if len(track_items) >= 3
MinTrackItems == 3

\* if ' - ' in text and len(text) > 5
MinItemLen == 5

IsTrackItem(item) == Find(item, Sep) > 0 /\ Len(item) > MinItemLen

\* track_items of a list: its items that look like tracks, in order.
TrackItems(items) == SelectSeq(items, IsTrackItem)

\* The blocks left after elem.decompose() of the unwanted sections.
IsKept(block) == ~block.removed

Cleaned(blocks) == SelectSeq(blocks, IsKept)

\* Mutant of FirstTrackList: the last list with enough track items wins.
RECURSIVE LastTrackList(_)
LastTrackList(blocks) ==
    IF blocks = << >> THEN << >>
    ELSE LET b == blocks[Len(blocks)]
         IN  IF b.tag = "ol" /\ Len(TrackItems(b.items)) >= MinTrackItems
             THEN TrackItems(b.items)
             ELSE LastTrackList(SubSeq(blocks, 1, Len(blocks) - 1))

\* for ol_elem in content_div.find_all(['ol', 'ul']): the track items of the
\* first list that has MinTrackItems of them (break), none when no list has.
RECURSIVE FirstTrackList(_)
FirstTrackList(blocks) ==
    IF blocks = << >> THEN << >>
    ELSE LET b == Head(blocks)
         IN  IF b.tag = "ol" /\ Len(TrackItems(b.items)) >= MinTrackItems
             THEN TrackItems(b.items)
             ELSE FirstTrackList(Tail(blocks))

\* [f"{i+1}. {track}" for i, track in enumerate(track_items)]
Numbered(track_items) ==
    [k \in 1..Len(track_items) |-> IntToStr(k) \o <<".", " ">> \o track_items[k]]

\* The lengths of the prefixes of s that
\* (\[\d+\]|\d{1,2}:\d{2}(:\d{2})?|\d{1,3}\.) can match.
AllDigits(s, a, b) == a <= b /\ b <= Len(s) /\ \A k \in a..b : IsDigit(s[k])

MarkerLengths(s) ==
    {m \in 3..Len(s) : s[1] = "[" /\ s[m] = "]" /\ AllDigits(s, 2, m - 1)}
      \cup {a + 3 : a \in {a \in 1..2 :
                /\ AllDigits(s, 1, a)
                /\ a + 3 <= Len(s) /\ s[a + 1] = ":"
                /\ AllDigits(s, a + 2, a + 3)}}
      \cup {a + 6 : a \in {a \in 1..2 :
                /\ AllDigits(s, 1, a)
                /\ a + 6 <= Len(s) /\ s[a + 1] = ":"
                /\ AllDigits(s, a + 2, a + 3)
                /\ s[a + 4] = ":"
                /\ AllDigits(s, a + 5, a + 6)}}
      \cup {a + 1 : a \in {a \in 1..3 :
                AllDigits(s, 1, a) /\ a + 1 <= Len(s) /\ s[a + 1] = "."}}

\* \s+.+\s+-\s+.+ matches s from position m + 1: whitespace at m + 1, and a
\* "-" between two whitespace characters with at least one character between
\* the first whitespace and the one before the "-", and one after the one
\* that follows it (the line holds no line break, so the dot matches any of
\* its characters).
TailMatches(s, m) ==
    /\ m + 1 <= Len(s)
    /\ IsSpace(s[m + 1])
    /\ \E j \in (m + 4)..(Len(s) - 2) :
          s[j] = "-" /\ IsSpace(s[j - 1]) /\ IsSpace(s[j + 1])

\* tracklist_pattern.match(line)
TracklistPattern(ln) == \E m \in MarkerLengths(ln) : TailMatches(ln, m)

\* tracklist_text = content_div.get_text(separator='\n', strip=True), the
\* texts of the kept blocks in document order joined by line breaks, and
\* lines = tracklist_text.split('\n'): content without text gives one empty
\* line.
ContentLines(blocks) ==
    LET RECURSIVE TextsOf(_)
        TextsOf(bs) ==
            IF bs = << >> THEN << >> ELSE Head(bs).items \o TextsOf(Tail(bs))
    IN  SplitAll(Join(TextsOf(blocks)), "\n")

\* line = line.strip(); if line and tracklist_pattern.match(line)
IsPatternLine(ln) == Strip(ln) # << >> /\ TracklistPattern(Strip(ln))

RECURSIVE StripEach(_)
StripEach(lines) ==
    IF lines = << >> THEN << >> ELSE <<Strip(Head(lines))>> \o StripEach(Tail(lines))

PatternLines(blocks) == StripEach(SelectSeq(ContentLines(blocks), IsPatternLine))

\* tracklist_lines: the first qualifying list renumbered, else the lines of
\* the text that match the pattern.
TracklistLines(blocks) ==
    LET listed == Numbered(FirstTrackList(Cleaned(blocks)))
    IN  IF listed # << >> THEN listed ELSE PatternLines(Cleaned(blocks))

\* get_tracklist_from_mix_page: "" for a failed request, a page without the
\* content div or without a tracklist line, else the lines joined.
GetTracklistFromMixPage(resp) ==
    IF resp.kind # "page" THEN << >> ELSE Join(TracklistLines(resp.blocks))

(***************************************************************************)
(* SpecMix: get_tracklist_from_mix_page applied to one answer of the mix   *)
(* database: a failed request, a page without content, or a page of at     *)
(* most two blocks, a list of the content holding at most MaxListItems     *)
(* items.                                                                  *)
(***************************************************************************)

MaxListItems == 4

\* Texts of items: a track without a marker, a numbered track, and a numbered
\* track whose parts are separated by tabs.
ItemTrack    == <<"a", " ", "-", " ", "b", "c", "d">>
ItemNumbered == <<"1", ".", " ", "a", " ", "-", " ", "b">>
ItemTabbed   == <<"1", ".", "\t", "a", "\t", "-", "\t", "b">>

ItemTexts == {ItemTrack, ItemNumbered, ItemTabbed}

\* Texts of paragraphs: the same, a bracketed index, a clock time, a word.
ParagraphTexts ==
    ItemTexts \cup {<<"[", "1", "]", " ", "a", " ", "-", " ", "b">>,
                    <<"1", ":", "0", "0", " ", "a", " ", "-", " ", "b">>,
                    <<"x">>}

\* The lists of the content, of at most n items, and the lists inside a
\* removed section (related mixes, categories), of MinTrackItems items.
ListBlocks(n) ==
    {[tag |-> "ol", removed |-> FALSE, items |-> q] : q \in SeqsUpTo(ItemTexts, n)}
      \cup {[tag |-> "ol", removed |-> TRUE, items |-> q] :
                q \in [1..MinTrackItems -> ItemTexts]}

ParagraphBlocks ==
    {[tag |-> "p", removed |-> FALSE, items |-> <<t>>] : t \in ParagraphTexts}

Blocks(n) == ListBlocks(n) \cup ParagraphBlocks

MixPages(n) ==
    {[kind |-> "request_error"], [kind |-> "no_content"]}
      \cup {[kind |-> "page", blocks |-> << >>]}
      \cup {[kind |-> "page", blocks |-> <<a>>] : a \in Blocks(n)}
      \cup {[kind |-> "page", blocks |-> <<a, b>>] : a \in Blocks(n), b \in Blocks(n)}

InitMix ==
    /\ pc = "mix"
    /\ mix_page \in MixPages(MaxListItems)
    /\ text = << >> /\ tracks = << >> /\ i = 0 /\ pidx = 0
    /\ results = EmptyDict /\ doc = NoDoc /\ invoked = << >>
    /\ requests = 0 /\ unslept = 0
    /\ all_results = EmptyDict /\ rows = << >> /\ rates = EmptyDict
    /\ err = "" /\ line = << >> /\ parsed = NoTrack
    /\ calls = 0 /\ artist_page = NoDoc /\ mix_links = << >> /\ mix_idx = 0
    /\ tracklist = << >> /\ tracklists = << >> /\ user_input = << >>
    /\ status = 0 /\ detail = << >>

\* tracklist = self.get_tracklist_from_mix_page(url, title)
ExtractTracklist ==
    /\ pc = "mix"
    /\ tracklist' = GetTracklistFromMixPage(mix_page)
    /\ pc' = "extracted"
    /\ UNCHANGED <<text, tracks, i, pidx, results, doc, invoked, requests, unslept,
                   all_results, rows, rates, err, line, parsed, calls,
                   artist_page, mix_links, mix_idx, mix_page, tracklists,
                   user_input, status, detail>>

NextMix == ExtractTracklist

SpecMix == InitMix /\ [][NextMix]_vars

(***************************************************************************)
(* Properties of the tracklist extractor (SpecMix)                         *)
(***************************************************************************)

\* An item text that looks like a track: it holds " - " and has more than
\* five characters.
LooksLikeTrack(item) ==
    /\ Len(item) > 5
    /\ \E k \in 1..(Len(item) - 2) :
          item[k] = " " /\ item[k + 1] = "-" /\ item[k + 2] = " "

\* The block at position k of the page is a list of the cleaned region with
\* three or more track-shaped items.
Qualifies(k) ==
    /\ mix_page.blocks[k].tag = "ol"
    /\ ~mix_page.blocks[k].removed
    /\ Len(SelectSeq(mix_page.blocks[k].items, LooksLikeTrack)) >= 3

QualifyingLists == {k \in 1..Len(mix_page.blocks) : Qualifies(k)}

\* The output, line by line (no line for the empty output).
OutputLines == IF tracklist = << >> THEN << >> ELSE SplitAll(tracklist, "\n")

\* C11: when a list of the cleaned content has three or more track-shaped
\* items, the output is exactly the track-shaped items of the first such list
\* in document order, numbered 1., 2., ... without a gap, and no line comes
\* from the pattern fallback; when no list qualifies, every output line is a
\* text of the cleaned content that the pattern matches.
C11_FirstQualifyingListWins ==
    (pc = "extracted" /\ mix_page.kind = "page") =>
        LET out   == OutputLines
            lists == QualifyingLists
        IN  IF lists # {}
            THEN LET first  == CHOOSE k \in lists : \A h \in lists : k <= h
                     shaped == SelectSeq(mix_page.blocks[first].items, LooksLikeTrack)
                 IN  /\ Len(out) = Len(shaped)
                     /\ \A k \in 1..Len(shaped) :
                           out[k] = <<Digits[k], ".", " ">> \o shaped[k]
            ELSE \A k \in 1..Len(out) :
                    /\ TracklistPattern(out[k])
                    /\ \E b \in 1..Len(mix_page.blocks) :
                          /\ ~mix_page.blocks[b].removed
                          /\ \E j \in 1..Len(mix_page.blocks[b].items) :
                                mix_page.blocks[b].items[j] = out[k]

\* A list with two track-shaped items, then a list of four items of which
\* three are track-shaped: the output is the three, numbered 1. to 3.
C11_Witness ==
    /\ pc = "extracted"
    /\ mix_page.kind = "page"
    /\ Len(mix_page.blocks) = 2
    /\ mix_page.blocks[1] =
          [tag |-> "ol", removed |-> FALSE, items |-> <<ItemNumbered, ItemNumbered>>]
    /\ mix_page.blocks[2] =
          [tag |-> "ol", removed |-> FALSE,
           items |-> <<ItemTrack, ItemTabbed, ItemNumbered, ItemTrack>>]
    /\ OutputLines = << <<"1", ".", " ">> \o ItemTrack,
                        <<"2", ".", " ">> \o ItemNumbered,
                        <<"3", ".", " ">> \o ItemTrack >>

\* The leading marker of an extracted line: its text up to the first
\* whitespace character.
LeadingMarker(ln) ==
    IF FirstWhitespace(ln) = 0 THEN ln ELSE Slice(ln, 1, FirstWhitespace(ln) - 1)

\* C17 as the specification states it: every line the extractor emits, from
\* the list tier or from the pattern fallback, is accepted by
\* Track.parse_tracklist_line, and its leading marker is the Track's
\* timestamp.  The pattern separates the marker with any whitespace and the
\* parser cuts at a space only, so a fallback line such as "1.<TAB>a<TAB>-<TAB>b"
\* is rejected and this is violated.
C17_ExtractedLinesParse ==
    pc = "extracted" =>
        \A k \in 1..Len(OutputLines) :
            /\ ParseTracklistLine(OutputLines[k]).ok
            /\ ParseTracklistLine(OutputLines[k]).timestamp
                  = LeadingMarker(OutputLines[k])

(***************************************************************************)
(* MixesDBScraper.get_mix_urls_from_artist_page                            *)
(*                                                                         *)
(* What the mix database answers for the artist page:                      *)
(*   request_error  session.get or raise_for_status raises                 *)
(*   no_container   a page without the list of mixes                       *)
(*   page           the items of the list of mixes in document order; an   *)
(*                  item has a link or none, the link a target (href, the  *)
(*                  empty string when it has none) and a text (title, as   *)
(*                  get_text(strip=True) gives it).                        *)
(***************************************************************************)

\* self.base_url
MixesBaseUrl == <<"https://www.mixesdb.com">>

WikiPrefix == <<"/", "w", "/">>

\* s.startswith(prefix)
StartsWith(s, prefix) == MatchesAt(s, prefix, 1)

\* Mutant of AcceptsLink: every same-site path is taken for a mix.
AcceptsAnyPath(item) ==
    /\ item.link
    /\ item.href # << >>
    /\ item.title # << >>
    /\ StartsWith(item.href, <<"/">>)

\* if link: ... if href and title: ... if not href.startswith('/w/'): continue
AcceptsLink(item) ==
    /\ item.link
    /\ item.href # << >>
    /\ item.title # << >>
    /\ StartsWith(item.href, WikiPrefix)

\* full_url = f"{self.base_url}{href}" if href.startswith('/') else href
FullUrl(href) ==
    IF StartsWith(href, <<"/">>) THEN MixesBaseUrl \o href ELSE href

\* The loop over all_lis: an accepted item appends its url and title.
RECURSIVE MixLinks(_)
MixLinks(items) ==
    IF items = << >> THEN << >>
    ELSE (IF AcceptsLink(Head(items))
          THEN <<[url |-> FullUrl(Head(items).href), title |-> Head(items).title]>>
          ELSE << >>)
         \o MixLinks(Tail(items))

\* get_mix_urls_from_artist_page: [] for a failed request (the except) and
\* for a page without the list, else the accepted items.
GetMixUrlsFromArtistPage(resp) ==
    IF resp.kind # "page" THEN << >> ELSE MixLinks(resp.items)

(***************************************************************************)
(* SpecArtist: get_mix_urls_from_artist_page applied to one answer of the  *)
(* mix database, the list of mixes holding at most MaxMixItems items.      *)
(***************************************************************************)

MaxMixItems == 3

MixItems ==
    LET Hrefs ==
            {<< >>,
             <<"/", "w", "/", "A">>, <<"/", "w", "/", "B">>,
             <<"/", "x", "/", "A">>,
             <<"h", "t", "t", "p", ":", "/", "/", "h", "/", "w", "/", "A">>}
        Titles == {<< >>, <<"A">>, <<"B">>}
    IN  {[link |-> FALSE, href |-> << >>, title |-> << >>]}
          \cup {[link |-> TRUE, href |-> h, title |-> t] : h \in Hrefs, t \in Titles}

ArtistPages(n) ==
    {[kind |-> "request_error"], [kind |-> "no_container"]}
      \cup {[kind |-> "page", items |-> q] : q \in SeqsUpTo(MixItems, n)}

InitArtist ==
    /\ pc = "artist"
    /\ artist_page \in ArtistPages(MaxMixItems)
    /\ text = << >> /\ tracks = << >> /\ i = 0 /\ pidx = 0
    /\ results = EmptyDict /\ doc = NoDoc /\ invoked = << >>
    /\ requests = 0 /\ unslept = 0
    /\ all_results = EmptyDict /\ rows = << >> /\ rates = EmptyDict
    /\ err = "" /\ line = << >> /\ parsed = NoTrack
    /\ calls = 0 /\ mix_links = << >> /\ mix_idx = 0 /\ mix_page = NoDoc
    /\ tracklist = << >> /\ tracklists = << >> /\ user_input = << >>
    /\ status = 0 /\ detail = << >>

\* mix_links = self.get_mix_urls_from_artist_page(artist_url)
ExtractMixLinks ==
    /\ pc = "artist"
    /\ mix_links' = GetMixUrlsFromArtistPage(artist_page)
    /\ pc' = "listed"
    /\ UNCHANGED <<text, tracks, i, pidx, results, doc, invoked, requests, unslept,
                   all_results, rows, rates, err, line, parsed, calls,
                   artist_page, mix_idx, mix_page, tracklist, tracklists,
                   user_input, status, detail>>

NextArtist == ExtractMixLinks

SpecArtist == InitArtist /\ [][NextArtist]_vars

(***************************************************************************)
(* Properties of the mix list extractor (SpecArtist)                       *)
(***************************************************************************)

\* The positions of the items the claim accepts: a link with a text and a
\* target that starts with /w/.
Accepted ==
    {k \in 1..Len(artist_page.items) :
        LET item == artist_page.items[k]
        IN  /\ item.link
            /\ item.title # << >>
            /\ Len(item.href) >= 3
            /\ item.href[1] = "/" /\ item.href[2] = "w" /\ item.href[3] = "/"}

\* C12: get_mix_urls_from_artist_page does not raise; it returns the empty
\* sequence for a failed fetch and for a page without the container;
\* otherwise it returns, in document order, exactly the items whose link has
\* a non-empty title and a target starting with /w/, each with the site base
\* URL put before the target, and nothing for any other item.
C12_MixLinksInDocumentOrder ==
    pc = "listed" =>
        /\ err = ""
        /\ artist_page.kind # "page" => mix_links = << >>
        /\ artist_page.kind = "page" =>
              LET acc == Accepted
              IN  /\ Len(mix_links) = Cardinality(acc)
                  /\ \A k \in acc :
                        LET n == Cardinality({h \in acc : h <= k})
                        IN  /\ mix_links[n].title = artist_page.items[k].title
                            /\ mix_links[n].url
                                 = <<"https://www.mixesdb.com">> \o artist_page.items[k].href

\* Mix B, a link that leaves the wiki, mix A: the output is B then A.
C12_Witness ==
    /\ pc = "listed"
    /\ artist_page.kind = "page"
    /\ Len(artist_page.items) = 3
    /\ Accepted = {1, 3}
    /\ artist_page.items[2].href = <<"/", "x", "/", "A">>
    /\ artist_page.items[2].title = <<"A">>
    /\ mix_links =
          <<[url |-> <<"https://www.mixesdb.com", "/", "w", "/", "B">>, title |-> <<"B">>],
            [url |-> <<"https://www.mixesdb.com", "/", "w", "/", "A">>, title |-> <<"A">>]>>

(***************************************************************************)
(* The run of the scraper: main() of digger.py                             *)
(*   scrape_artist_tracklists (the artist page, then every mix page, each  *)
(*   followed by time.sleep(2)) -> print, save the combined tracklist ->   *)
(*   the prompt -> search_all_tracklists (parse the combined tracklist,    *)
(*   then the loop, the table and the statistics of the search tool)       *)
(***************************************************************************)

CancelTokens ==
    {<<"c", "a", "n", "c", "e", "l">>, <<"c">>, <<"q", "u", "i", "t">>, <<"q">>,
     <<"e", "x", "i", "t">>}

\* Mutant of IsCancel: the input is compared as typed.
IsCancelAsTyped(typed) == Strip(typed) \in CancelTokens

\* user_input = input(">>> ").strip().lower()
\* if user_input in ['cancel', 'c', 'quit', 'q', 'exit']
\* The tokens are ASCII letters, and every character of a string has a
\* lower-case form of at least one character: the lowered input is a token
\* exactly when it has the token's length and each of its characters lowers
\* to the token's letter at its place.
IsCancel(typed) ==
    LET stripped == Strip(typed)
    IN  \E token \in CancelTokens :
           /\ Len(stripped) = Len(token)
           /\ \A k \in 1..Len(token) : LowersTo(stripped[k], token[k])

\* f"# {mix_data['title']}\n{mix_data['tracklist']}"
MixSection(mix_data) ==
    <<"#", " ">> \o mix_data.title \o <<"\n">> \o mix_data.tracklist

\* "\n\n".join([... for mix_data in tracklists])
RECURSIVE Combined(_)
Combined(lists) ==
    IF lists = << >> THEN << >>
    ELSE IF Len(lists) = 1 THEN MixSection(lists[1])
    ELSE MixSection(lists[1]) \o <<"\n", "\n">> \o Combined(Tail(lists))

\* Largest result list of a storefront's page during the run of the scraper.
DiggerItems == 0

\* The artist pages of the run: a failed request, one mix, two mixes.
DiggerArtistPages ==
    LET MixA == [link |-> TRUE, href |-> <<"/", "w", "/", "A">>, title |-> <<"A">>]
        MixB == [link |-> TRUE, href |-> <<"/", "w", "/", "B">>, title |-> <<"B">>]
    IN  {[kind |-> "request_error"],
         [kind |-> "page", items |-> <<MixA>>],
         [kind |-> "page", items |-> <<MixA, MixB>>]}

\* The mix pages of the run: a failed request, a page with one numbered
\* line, a page with one numbered line separated by tabs.
DiggerMixPages ==
    {[kind |-> "request_error"],
     [kind |-> "page",
      blocks |-> <<[tag |-> "p", removed |-> FALSE, items |-> <<ItemNumbered>>]>>],
     [kind |-> "page",
      blocks |-> <<[tag |-> "p", removed |-> FALSE, items |-> <<ItemTabbed>>]>>]}

\* What the operator may type.
Typed ==
    {<< >>, <<"y">>, <<"n", "o">>,
     <<"c", "a", "n", "c", "e", "l">>, <<"C">>, <<" ", "Q", "u", "i", "t", " ">>,
     <<"", "q", "">>, <<"E", "X", "I", "T">>}

InitDigger ==
    /\ pc = "start"
    /\ text = << >>
    /\ Idle

\* No artist name on the command line: main prints the usage and exits with
\* status 1; nothing is requested.
Usage ==
    /\ pc = "start"
    /\ pc' = "exit"
    /\ UNCHANGED <<text, tracks, i, pidx, results, doc, invoked, requests, unslept,
                   all_results, rows, rates, err, line, parsed, calls, scraper>>

\* mix_links = self.get_mix_urls_from_artist_page(artist_url); no mix: main
\* exits with status 1.
FetchArtistPage ==
    /\ pc = "start"
    /\ \E resp \in DiggerArtistPages :
          /\ artist_page' = resp
          /\ mix_links' = GetMixUrlsFromArtistPage(resp)
    /\ unslept' = unslept + 1
    /\ pc' = IF mix_links' = << >> THEN "exit" ELSE "fetch_mix"
    /\ UNCHANGED <<text, tracks, i, pidx, results, doc, invoked, requests,
                   all_results, rows, rates, err, line, parsed, calls, mix_idx,
                   mix_page, tracklist, tracklists, user_input, status, detail>>

\* tracklist = self.get_tracklist_from_mix_page(url, title); if tracklist:
\* all_tracklists.append(...)
FetchMix ==
    /\ pc = "fetch_mix"
    /\ \E resp \in DiggerMixPages :
          /\ mix_page' = resp
          /\ tracklist' = GetTracklistFromMixPage(resp)
    /\ tracklists' =
          IF tracklist' # << >>
          THEN Append(tracklists, [title |-> mix_links[mix_idx + 1].title,
                                   url |-> mix_links[mix_idx + 1].url,
                                   tracklist |-> tracklist'])
          ELSE tracklists
    /\ artist_page' = NoDoc
    /\ unslept' = unslept + 1
    /\ pc' = "mix_sleep"
    /\ UNCHANGED <<text, tracks, i, pidx, results, doc, invoked, requests,
                   all_results, rows, rates, err, line, parsed, calls, mix_links,
                   mix_idx, user_input, status, detail>>

\* time.sleep(2), then the next mix; after the last one main exits with
\* status 1 when no mix had a tracklist, else prints the tracklists and goes
\* on to save the combined tracklist.
SleepMix ==
    /\ pc = "mix_sleep"
    /\ unslept' = 0
    /\ mix_idx' = mix_idx + 1
    /\ mix_page' = NoDoc
    /\ tracklist' = << >>
    /\ pc' = IF mix_idx' < Len(mix_links) THEN "fetch_mix"
             ELSE IF tracklists = << >> THEN "exit"
             ELSE "save"
    /\ UNCHANGED <<text, tracks, i, pidx, results, doc, invoked, requests,
                   all_results, rows, rates, err, line, parsed, calls,
                   artist_page, mix_links, tracklists, user_input, status, detail>>

\* with open(Path.cwd() / f"{artist_name.replace(' ', '_')}_combined_tracklist.txt", 'w')
\* outside any try: the file is written and main goes on to the prompt, or
\* open raises (FileNotFoundError when the artist name holds a "/", as in
\* AC/DC) and the run ends with the exception before the prompt.
SaveCombined ==
    /\ pc = "save"
    /\ \E opened \in BOOLEAN :
          IF opened
          THEN pc' = "gate" /\ err' = err
          ELSE pc' = "crashed" /\ err' = "OSError"
    /\ UNCHANGED <<text, tracks, i, pidx, results, doc, invoked, requests, unslept,
                   all_results, rows, rates, line, parsed, calls,
                   artist_page, mix_links, mix_idx, mix_page, tracklist,
                   tracklists, user_input, status, detail>>

\* user_input = input(">>> ").strip().lower(); a cancel token: sys.exit(0).
\* input() is outside any try: with the standard input at its end it raises
\* EOFError and the run ends with the exception, nothing assigned.
Gate ==
    /\ pc = "gate"
    /\ \/ \E typed \in Typed :
             /\ user_input' = typed
             /\ pc' = IF IsCancel(typed) THEN "cancelled" ELSE "search"
             /\ err' = err
       \/ /\ user_input' = user_input
          /\ pc' = "crashed"
          /\ err' = "EOFError"
    /\ UNCHANGED <<text, tracks, i, pidx, results, doc, invoked, requests, unslept,
                   all_results, rows, rates, line, parsed, calls,
                   artist_page, mix_links, mix_idx, mix_page, tracklist,
                   tracklists, status, detail>>

\* search_all_tracklists(tracklists) up to its loop: the combined tracklist
\* is parsed; no track: return.
BeginSearch ==
    /\ pc = "search"
    /\ text' = Combined(tracklists)
    /\ tracks' = ParseTracklist(text')
    /\ all_results' = EmptyDict
    /\ i' = 0
    /\ user_input' = << >>
    /\ pc' = IF tracks' = << >> THEN "exit" ELSE "loop"
    /\ UNCHANGED <<pidx, results, doc, invoked, requests, unslept, rows, rates,
                   err, line, parsed, calls, artist_page, mix_links, mix_idx,
                   mix_page, tracklist, tracklists, status, detail>>

NextDigger ==
    \/ Usage
    \/ FetchArtistPage
    \/ FetchMix
    \/ SleepMix
    \/ SaveCombined
    \/ Gate
    \/ BeginSearch
    \/ StartTrack
    \/ CallAdapter(DiggerItems, {"ok"})
    \/ Sleep
    \/ FinishTrack
    \/ SaveResults
    \/ GenerateStats

SpecDigger == InitDigger /\ [][NextDigger]_vars

(***************************************************************************)
(* Properties of the run of the scraper (SpecDigger)                       *)
(***************************************************************************)

\* The words that cancel, and an input that is one of them in some letter
\* case (surrounding whitespace aside).
CancelWords ==
    {<<"c", "a", "n", "c", "e", "l">>, <<"c">>, <<"q", "u", "i", "t">>, <<"q">>,
     <<"e", "x", "i", "t">>}

SameWord(a, b) ==
    /\ Len(a) = Len(b)
    /\ \A k \in 1..Len(a) :
          a[k] = b[k] \/ (a[k] \in DOMAIN CaseTable /\ CaseTable[a[k]] = b[k])

IsCancelWord(typed) == \E w \in CancelWords : SameWord(Strip(typed), w)

\* The run is inside the search: from the parse of the combined tracklist to
\* the statistics.
Searching == pc \in {"loop", "call", "sleep", "return", "stats"}

\* C13, the states: the prompt comes when every mix has been fetched and no
\* adapter has been invoked; a cancelled run has invoked no adapter; a run
\* that ends after the search has invoked the four adapters for every track;
\* the only exceptions that end a run are the one of the save of the combined
\* tracklist and the one of a prompt that meets the end of the input, both
\* before any adapter is invoked and with no text taken from the operator.
C13_GateStates ==
    /\ pc = "gate" => (mix_idx = Len(mix_links) /\ calls = 0)
    /\ pc \in {"start", "fetch_mix", "mix_sleep", "save", "search", "cancelled",
              "exit"}
          => calls = 0
    /\ pc = "done" => (i = Len(tracks) /\ calls = Len(PlatformNames) * Len(tracks))
    /\ pc = "crashed" =>
          (err \in {"OSError", "EOFError"} /\ calls = 0 /\ user_input = << >>)

\* C13, the steps: a cancel word typed at the prompt ends the run; once the
\* search has begun the run stays in it until it is done.
C13_GateSteps ==
    /\ (pc = "gate" /\ IsCancelWord(user_input')) => pc' = "cancelled"
    /\ pc = "cancelled" => pc' = "cancelled"
    /\ Searching => (pc' = "done" \/ pc' \in {"loop", "call", "sleep", "return", "stats"})

\* C13: in the run of the scraper the prompt comes after all tracklists are
\* collected and before any platform search; cancel, c, quit, q or exit in
\* any letter case ends the run without an adapter being invoked; once the
\* search has started it is not aborted and every track is searched.
C13_CancelBeforeSearch == [](C13_GateStates) /\ [][C13_GateSteps]_vars

\* Two mixes collected, " Quit " typed: the run ended, no adapter invoked.
C13_Witness ==
    /\ pc = "cancelled"
    /\ Len(tracklists) = 2
    /\ user_input = <<" ", "Q", "u", "i", "t", " ">>
    /\ calls = 0

\* The lines the extractor returned for the collected mixes that the parser
\* accepts.
RECURSIVE ParseableLines(_)
ParseableLines(lists) ==
    IF lists = << >> THEN 0
    ELSE Len(SelectSeq(SplitAll(Head(lists).tracklist, "\n"),
                       LAMBDA ln : ParseTracklistLine(ln).ok))
         + ParseableLines(Tail(lists))

\* C16 as the specification states it: the Tracks that are searched are as
\* many as the parseable lines the extractor returned, and no "# <mix title>"
\* line is a Track.  The parser accepts "# A" (timestamp "#", artist "A"), so
\* every collected mix adds a Track and this is violated.
C16_TracksAreExtractedLines ==
    (Searching \/ pc = "done") =>
        /\ Len(tracks) = ParseableLines(tracklists)
        /\ \A k \in 1..Len(tracks) : tracks[k].timestamp # <<"#">>

(***************************************************************************)
(* Properties of the order and the delays of the search (Spec)             *)
(***************************************************************************)

\* The adapters invoked for the current track are the first ones of
\* PlatformNames, in that order.
InvokedInOrder ==
    /\ Len(invoked) <= Len(PlatformNames)
    /\ \A k \in 1..Len(invoked) : invoked[k] = PlatformNames[k]

\* C14, the states: at most one network call has been issued since the last
\* delay, none when an adapter is about to be invoked; the adapters of a
\* track run in the order of the platforms.
C14_DelayStates ==
    /\ unslept <= 1
    /\ pc = "call" => unslept = 0
    /\ InvokedInOrder
    /\ pc \in {"call", "sleep", "return"} => i < Len(tracks)

\* C14, the steps: an adapter invocation, whatever it returned, is followed
\* by the delay; the delay comes before anything else is invoked; a network
\* call is issued only when a delay has passed since the one before; the
\* tracks are taken one at a time in their order.
C14_DelaySteps ==
    /\ calls' # calls => (calls' = calls + 1 /\ pc = "call" /\ pc' = "sleep")
    /\ pc = "sleep" => (unslept' = 0 /\ calls' = calls /\ requests' = requests)
    /\ requests' > requests => (unslept = 0 /\ requests' = requests + 1)
    /\ i' # i => (i' = i + 1 /\ pc = "return" /\ Len(invoked) = Len(PlatformNames))

\* C14: the search is sequential and rate limited: the tracks are searched
\* one at a time in their order, the four adapters of a track run one after
\* another, every adapter invocation (with results, without, or failed) is
\* followed by the delay before the next network call, and no two network
\* calls are issued without a delay between them.
C14_SequentialRateLimited == [](C14_DelayStates) /\ [][C14_DelaySteps]_vars

\* C15 as the specification states it: no field of a Track has leading or
\* trailing whitespace.  The parser strips artist and title only: the
\* timestamp is the text before the first space, so the line "a<TAB> a" gives
\* the timestamp "a<TAB>", and this is violated.
C15_FieldsTrimmed ==
    (pc = "parsed" /\ parsed.ok) =>
        /\ Strip(parsed.timestamp) = parsed.timestamp
        /\ Strip(parsed.artist) = parsed.artist
        /\ Strip(parsed.title) = parsed.title
        /\ Strip(parsed.remix_info) = parsed.remix_info

(***************************************************************************)
(* SpecServer: the endpoint POST /search (server.py, search_tracks)        *)
(* answering one request.                                                  *)
(***************************************************************************)

MaxRequestTokens == 3

\* request.tracklist: the sample tracklists and the lines of at most
\* MaxRequestTokens tokens.
RequestTexts == Texts \cup Lines(MaxRequestTokens)

\* The attributes of a MusicStoreSearcher: what __init__ sets and the
\* methods of the class.
SearcherAttributes ==
    {"session", "search_bandcamp", "search_beatport", "search_traxsource",
     "search_hardwax", "search_all_platforms"}

\* The detail of the HTTPException raised when no track was parsed.
NoTracksDetail == "No valid tracks found in input."

\* The exceptions the body of the try block can raise for the parsed tracks,
\* each with the texts str(e) can be.  Without a track the handler raises
\* HTTPException(400) itself; its str is "400: <detail>" where the framework
\* defines __str__ and "" where it does not.  With a track it evaluates
\* searcher.search_all, an attribute a MusicStoreSearcher does not have.
Raised(trks) ==
    IF trks = << >>
    THEN {[type |-> "HTTPException", str |-> t] :
             t \in {"", "400: No valid tracks found in input."}}
    ELSE IF "search_all" \notin SearcherAttributes
    THEN {[type |-> "AttributeError",
           str  |-> "'MusicStoreSearcher' object has no attribute 'search_all'"]}
    ELSE {}

InitServer ==
    /\ pc = "request"
    /\ text \in RequestTexts
    /\ Idle

\* search_tracks(request).  Both raises happen inside the try block, and
\* "except Exception" catches them (HTTPException is an Exception): the
\* answer is HTTPException(500, "Server error: <e>").  The lines after the
\* call of search_all are never reached.
SearchTracks ==
    /\ pc = "request"
    /\ tracks' = ParseTracklist(text)
    /\ \E e \in Raised(tracks') :
          /\ err' = e.type
          /\ status' = 500
          /\ detail' = <<"Server error: ", e.str>>
    /\ pc' = "answered"
    /\ UNCHANGED <<calls, artist_page, mix_links, mix_idx, mix_page, tracklist,
                   tracklists, user_input, text, i, pidx, results, doc, invoked,
                   requests, unslept, all_results, rows, rates, line, parsed>>

NextServer == SearchTracks

SpecServer == InitServer /\ [][NextServer]_vars

\* C18 as the specification states it: a request without a valid track is
\* answered with status 400 and the detail 'No valid tracks found in input.',
\* a request with a valid track is answered with status 200 and the result
\* rows, and no request is answered with status 500 when no fault occurred.
\* The handler answers every request with status 500, so this is violated.
C18_EndpointAnswers ==
    pc = "answered" =>
        /\ status # 500
        /\ tracks = << >> => (status = 400 /\ detail = <<NoTracksDetail>>)
        /\ tracks # << >> => status = 200

====
